---- MODULE Spec2Model ----
(***************************************************************************)
(* Worker runs of the Stash GraphQL tagger: the four bulk mutation workers *)
(* (ApplyTagWorker, RenameSceneWorker, AssignPerformersWorker,             *)
(* AssignStudioWorker), the scene search worker and the three lookup       *)
(* workers, together with the transport client they call.                  *)
(*                                                                         *)
(* A run is modelled as the worker's run() method: the events it emits on  *)
(* its WorkerSignals (status, progress, result, error, finished), in       *)
(* order, the mutation requests it hands to the client, and its counters.  *)
(* The server is the environment: each call gets an HTTP reply chosen      *)
(* from a small set of shapes.                                             *)
(*                                                                         *)
(* The window's result table (SceneTableModel) is modelled with the        *)
(* handlers that drive it: the arrival of a search result with its         *)
(* client-side file-size filter, row toggles, select all and none, the     *)
(* CSV import, header sorts and the column dialog.                         *)
(*                                                                         *)
(* The search form is modelled with the handler that validates it and      *)
(* starts a SearchScenesWorker, the worker with the filter it sends and    *)
(* the normalizer it runs over the scenes returned, and the delivery of    *)
(* its result to the window.                                               *)
(***************************************************************************)
EXTENDS Integers, Sequences, FiniteSets, TLC

VARIABLES
  worker,          \* which QRunnable this run is
  dry_run,         \* self.dry_run
  scenes,          \* self.scenes: the input records, in input order
  tag_id,          \* ApplyTagWorker.tag_id
  new_title,       \* RenameSceneWorker.new_title
  performer_ids,   \* AssignPerformersWorker.performer_ids
  studio_id,       \* AssignStudioWorker.studio_id
  pc,              \* position in run(): "ready", "loop", "done"
  idx,             \* number of records the loop has finished
  updated,         \* the counters of run()
  already,         \* already_tagged / already_assigned
  skipped_deleted,
  failed,
  outcomes,        \* outcome decided for each finished record, in order
  events,          \* every signal emitted so far, in emission order
  requests,        \* every mutation request handed to the transport
  results,         \* payloads emitted on signals.result
  reply,           \* the server's HTTP reply to the request of the record finished
                   \* last (NoReply when the loop body did not reach its call)
  server,          \* the tag ids the server holds for each input scene
  run,             \* 1 for the run on the selection, 2 for a run after a re-fetch
  _scenes,         \* SceneTableModel._scenes: the records shown, in row order
  _checked,        \* SceneTableModel._checked: the selection vector
  _visible_columns,\* SceneTableModel._visible_columns: indices into ALL_COLUMNS
  _sort_column,    \* SceneTableModel._sort_column
  _sort_order,     \* SceneTableModel._sort_order
  enable_filesize_filter_checkbox,  \* the file-size widgets of the window
  filesize_operator_combo,          \* currentIndex()
  filesize_value1_edit,             \* text()
  filesize_unit1_combo,             \* currentText()
  filesize_value2_edit,
  filesize_unit2_combo,
  search_edit,                      \* the search form of the window: text()
  selected_performers,              \* the ids keyed in self.selected_performers
  performer_logic_combo,            \* currentIndex()
  selected_studio,                  \* self.selected_studio: its id, or None
  enable_date_filter_checkbox,
  enable_duration_filter_checkbox,
  duration_operator_combo,          \* currentIndex()
  duration_value1_edit,             \* text()
  duration_value2_edit,
  enable_path_filter_checkbox,
  path_search_edit,                 \* text()
  enable_resolution_filter_checkbox,
  resolution_operator_combo,        \* currentIndex()
  resolution_combo,                 \* currentIndex()
  pool,            \* the SearchScenesWorker objects handed to the thread pool
                   \* that have not run yet
  calls,           \* every call of a search worker to the transport, with the
                   \* variables sent and the server's answer
  queue,           \* result signals of search workers queued to the GUI
                   \* thread, oldest first
  op,              \* the handler of the window or the table that ran last, with
                   \* its arguments
  at               \* position inside _on_scenes_found: "idle" outside it,
                   \* "replaced" between setScenes and select_all

workerVars == <<worker, dry_run, scenes, tag_id, new_title, performer_ids, studio_id,
                pc, idx, updated, already, skipped_deleted, failed, outcomes,
                events, requests, results, reply, server, run>>

tableVars == <<_scenes, _checked, _visible_columns, _sort_column, _sort_order>>

windowVars == <<enable_filesize_filter_checkbox, filesize_operator_combo,
                filesize_value1_edit, filesize_unit1_combo,
                filesize_value2_edit, filesize_unit2_combo,
                search_edit, selected_performers, performer_logic_combo,
                selected_studio, enable_date_filter_checkbox,
                enable_duration_filter_checkbox, duration_operator_combo,
                duration_value1_edit, duration_value2_edit,
                enable_path_filter_checkbox, path_search_edit,
                enable_resolution_filter_checkbox, resolution_operator_combo,
                resolution_combo>>

searchVars == <<pool, calls, queue>>

vars == <<workerVars, tableVars, windowVars, searchVars, op, at>>

----------------------------------------------------------------------------
(* Bounds of the model *)

MaxScenes == 2

----------------------------------------------------------------------------
(* Values *)

None == "None"

BulkWorkers == {"ApplyTagWorker", "RenameSceneWorker",
                "AssignPerformersWorker", "AssignStudioWorker"}

LookupWorkers == {"FetchTagWorker", "FetchPerformersWorker", "FetchStudiosWorker"}

Workers == BulkWorkers \cup LookupWorkers \cup {"SearchScenesWorker"}

\* Scene ids are opaque strings; the record at input position i has SceneId(i).
SceneId(i) == <<"sc1", "sc2", "sc3", "sc4", "sc5", "sc6">>[i]

\* A scene as the search query returns it (find_scenes_worker.py:44-59):
\* tags and performers are kept as the list of their ids, which is all the
\* workers read of them; studio is the studio's id or None.
Scene(i, title, tags, performers, studio) ==
  [id |-> SceneId(i), title |-> title, tags |-> tags,
   performers |-> performers, studio |-> studio]

\* The field values a worker's input records range over; the fields a
\* worker never reads stay at one value.
SceneShapes(w) ==
  CASE w = "ApplyTagWorker" ->
         {[title |-> "a", tags |-> t, performers |-> <<>>, studio |-> None] :
            t \in {<<>>, <<"t3", "t2">>, <<"t2", "t1">>}}
    [] w = "RenameSceneWorker" ->
         {[title |-> t, tags |-> <<>>, performers |-> <<>>, studio |-> None] :
            t \in {"a", "b"}}
    [] w = "AssignPerformersWorker" ->
         {[title |-> "a", tags |-> <<>>, performers |-> p, studio |-> None] :
            p \in {<<>>, <<"p2", "p1">>, <<"p2", "p2">>}}
    [] w = "AssignStudioWorker" ->
         {[title |-> "a", tags |-> <<>>, performers |-> <<>>, studio |-> s] :
            s \in {None, "s1", "s2"}}
    [] OTHER -> {}

\* The selected records a bulk worker is constructed with: the window starts
\* a worker only for a non-empty selection (stashapp_graphgl.py:2243-2246),
\* and every record carries the id the server returned for it.
InputScenes(w) ==
  UNION {{[i \in 1..n |-> Scene(i, f[i].title, f[i].tags, f[i].performers, f[i].studio)] :
            f \in [1..n -> SceneShapes(w)]} : n \in 1..MaxScenes}

----------------------------------------------------------------------------
(* Text: an error text is a sequence of words, so that substring search    *)
(* and upper-casing are computed rather than assumed.                      *)

upper(w) ==
  CASE w = "foreign" -> "FOREIGN"
    [] w = "Foreign" -> "FOREIGN"
    [] w = "key" -> "KEY"
    [] w = "Key" -> "KEY"
    [] w = "constraint" -> "CONSTRAINT"
    [] w = "not" -> "NOT"
    [] w = "found" -> "FOUND"
    [] OTHER -> w

Upper(text) == [i \in 1..Len(text) |-> upper(text[i])]

\* needle in text
Contains(text, needle) ==
  \E i \in 1..(Len(text) - Len(needle) + 1) :
     SubSeq(text, i, i + Len(needle) - 1) = needle

RECURSIVE Join(_)
\* "; ".join(msgs)
Join(msgs) ==
  IF msgs = <<>> THEN <<>>
  ELSE IF Len(msgs) = 1 THEN Head(msgs)
  ELSE Head(msgs) \o <<";">> \o Join(Tail(msgs))

ForeignKey == <<"FOREIGN", "KEY">>

Messages == {<<"FOREIGN", "KEY", "constraint">>,
             <<"foreign", "key", "constraint">>,
             <<"Foreign", "Key">>,
             <<"key", "not", "found">>}

----------------------------------------------------------------------------
(* The server's HTTP reply and the transport client                         *)

\* A parsed JSON body {data?, errors?}.  data is one of the shapes the
\* workers tell apart; su_id is data.sceneUpdate.id, count is data.find*.count.
Body(has_data, data, su_id, count, has_errors, errors) ==
  [has_data |-> has_data, data |-> data, su_id |-> su_id, count |-> count,
   has_errors |-> has_errors, errors |-> errors]

NoBody == Body(FALSE, "null", None, 0, FALSE, <<>>)

\* Bodies a sceneUpdate mutation on scene sid can be answered with: no data
\* member, a null one, an empty one, a null sceneUpdate, a sceneUpdate with
\* the scene's id or another one; with and without error messages.
MutationBodies(sid) ==
     {Body(FALSE, "null", None, 0, e # <<>>, e) :
        e \in {<<>>} \cup {<<m>> : m \in Messages}
                \cup {<<(<<"not", "found">>), (<<"foreign", "key", "constraint">>)>>}}
  \cup {Body(TRUE, d, None, 0, e # <<>>, e) :
          d \in {"null", "{}", "{sceneUpdate:null}"},
          e \in {<<>>, <<(<<"FOREIGN", "KEY", "constraint">>)>>}}
  \cup {Body(TRUE, "{sceneUpdate:{id}}", i, 0, e # <<>>, e) :
          i \in {sid, "other"}, e \in {<<>>, <<(<<"FOREIGN", "KEY", "constraint">>)>>}}

\* Bodies a findTags / findPerformers / findStudios / findScenes query can
\* be answered with.
QueryBodies ==
     {Body(FALSE, "null", None, 0, TRUE, <<(<<"not", "found">>)>>)}
  \cup {Body(TRUE, d, None, 0, FALSE, <<>>) : d \in {"null", "{}"}}
  \cup {Body(TRUE, "{find:{count}}", None, c, FALSE, <<>>) : c \in 0..1}

\* What requests.post gives back: a transport failure (connection error,
\* read timeout), or a status code with a body that is JSON or is not.
HttpReply(net, status, parseable, body) ==
  [net |-> net, status |-> status, parseable |-> parseable, body |-> body]

NoReply == HttpReply("none", 0, FALSE, NoBody)

Replies(bodies) ==
     {HttpReply("timeout", 0, FALSE, NoBody)}
  \cup {HttpReply("ok", s, FALSE, NoBody) : s \in {200, 500}}
  \cup {HttpReply("ok", 200, TRUE, b) : b \in bodies}
  \cup {HttpReply("ok", 500, TRUE, b) : b \in {x \in bodies : ~x.has_data /\ x.has_errors}}

Raised(exc) == [raised |-> TRUE, exc |-> exc, value |-> NoBody]

Returned(value) == [raised |-> FALSE, exc |-> None, value |-> value]

\* GraphQLClient.call
call(rp) ==
  IF rp.net # "ok" THEN Raised("RequestException")
  ELSE IF ~rp.parseable
       THEN (IF rp.status >= 400 THEN Raised("HTTPError") ELSE Raised("ValueError"))
  ELSE IF rp.status >= 400 THEN Raised("RuntimeError")
  ELSE Returned(rp.body)

\* The methods class GraphQLClient defines.
GraphQLClientMethods == {"call", "create_tag"}

----------------------------------------------------------------------------
(* Events on WorkerSignals.  rec is the 1-based input position of the       *)
(* record an event is about (0: about the run), val a progress percentage.  *)

Event(type, rec, what, val) == [type |-> type, rec |-> rec, what |-> what, val |-> val]

Status(rec, what) == Event("status", rec, what, 0)

Progress(rec, val) == Event("progress", rec, "", val)

Result == Event("result", 0, "", 0)

Error(what) == Event("error", 0, what, 0)

Finished == Event("finished", 0, "", 0)

\* Variant: the percentage of the index, not of the count done
PercentOfIndex(n, total) == ((n - 1) * 100) \div total

\* int((idx+1) / total * 100) with n = idx+1.  Python divides in double
\* precision; for every total up to 7 the truncated product equals the
\* exact floor of 100*n/total computed here.
Percent(n, total) == (n * 100) \div total

\* What one pass of a worker's loop body did: the record's outcome, the
\* events emitted, the requests handed to the transport, and whether the
\* pass reached its call site.
Step(outcome, evs, reqs, attempted) ==
  [outcome |-> outcome, events |-> evs, reqs |-> reqs, attempted |-> attempted]

Request(rec, id, field, value) ==
  [rec |-> rec, id |-> id, field |-> field, value |-> value]

In(x, seq) == \E k \in 1..Len(seq) : seq[k] = x

----------------------------------------------------------------------------
(* Classification of the answer to a sceneUpdate mutation                   *)

\* json.dumps(resp), taken when resp carries no error message
JsonDumps(resp) == <<"{", resp.data, "}">>

\* The per-record try statement after client.call has returned resp: the
\* same text in ApplyTagWorker, RenameSceneWorker and AssignPerformersWorker.
ClassifyResponse(resp, scene_id) ==
  \* resp["data"].get(...) with data null, or .get("id") on a null
  \* sceneUpdate: AttributeError, caught by the per-record except clause
  IF resp.has_data /\ resp.data \in {"null", "{sceneUpdate:null}"}
    THEN [outcome |-> "failed", what |-> "Exception"]
  ELSE IF resp.has_data /\ resp.data = "{sceneUpdate:{id}}" /\ resp.su_id = scene_id
    THEN [outcome |-> "updated", what |-> "Done"]
  ELSE LET err_msgs == IF resp.has_errors THEN resp.errors ELSE <<>>
           err_text == IF err_msgs # <<>> THEN Join(err_msgs) ELSE JsonDumps(resp)
       IN IF Contains(Upper(err_text), ForeignKey) \/ Contains(err_text, ForeignKey)
            THEN [outcome |-> "skipped_deleted", what |-> "Skipped deleted (FOREIGN KEY)"]
            ELSE [outcome |-> "failed", what |-> "Failed"]

\* Variant: no per-record except clause, an exception of the call leaves the loop
SceneUpdateOutcomeUncaught(r, scene_id) ==
  IF r.raised THEN [outcome |-> "abort", what |-> "Exception"]
  ELSE ClassifyResponse(r.value, scene_id)

\* The per-record try statement: r is what client.call gave, an exception
\* (caught by the per-record except clause) or the parsed response.
SceneUpdateOutcome(r, scene_id) ==
  IF r.raised THEN [outcome |-> "failed", what |-> "Exception"]
  ELSE ClassifyResponse(r.value, scene_id)

----------------------------------------------------------------------------
(* One pass of each bulk worker's loop.  i is the 0-based index of the      *)
(* record s, rp the server's reply to the request should one be sent.       *)

\* Variant: no idempotence check before the request
ApplyTagRecordNoShortcut(i, total, s, tag, dry, rp) ==
  LET progress == Progress(i + 1, Percent(i + 1, total))
  IN IF dry
       THEN Step("updated", <<Status(i + 1, "Dry-run"), progress>>, <<>>, FALSE)
     ELSE LET o == SceneUpdateOutcome(call(rp), s.id)
          IN Step(o.outcome, <<Status(i + 1, o.what), progress>>,
                  <<Request(i + 1, s.id, "tag_ids", Append(s.tags, tag))>>, TRUE)

\* Variant: the request carries the existing ids only
ApplyTagRecordDropsNewId(i, total, s, tag, dry, rp) ==
  LET progress == Progress(i + 1, Percent(i + 1, total))
  IN IF In(tag, s.tags)
       THEN Step("already", <<Status(i + 1, "Already tagged"), progress>>, <<>>, FALSE)
     ELSE IF dry
       THEN Step("updated", <<Status(i + 1, "Dry-run"), progress>>, <<>>, FALSE)
     ELSE LET o == SceneUpdateOutcome(call(rp), s.id)
          IN Step(o.outcome, <<Status(i + 1, o.what), progress>>,
                  <<Request(i + 1, s.id, "tag_ids", s.tags)>>, TRUE)

\* Variant: the new tag id is put in front of the existing ids
ApplyTagRecordPrepends(i, total, s, tag, dry, rp) ==
  LET progress == Progress(i + 1, Percent(i + 1, total))
  IN IF In(tag, s.tags)
       THEN Step("already", <<Status(i + 1, "Already tagged"), progress>>, <<>>, FALSE)
     ELSE IF dry
       THEN Step("updated", <<Status(i + 1, "Dry-run"), progress>>, <<>>, FALSE)
     ELSE LET o == SceneUpdateOutcome(call(rp), s.id)
          IN Step(o.outcome, <<Status(i + 1, o.what), progress>>,
                  <<Request(i + 1, s.id, "tag_ids", <<tag>> \o s.tags)>>, TRUE)

\* ApplyTagWorker.run, the loop body
ApplyTagRecord(i, total, s, tag, dry, rp) ==
  LET current_tag_ids == s.tags
      new_tag_ids == Append(current_tag_ids, tag)
      progress == Progress(i + 1, Percent(i + 1, total))
  IN IF In(tag, current_tag_ids)
       THEN Step("already", <<Status(i + 1, "Already tagged"), progress>>, <<>>, FALSE)
     ELSE IF dry
       THEN Step("updated", <<Status(i + 1, "Dry-run"), progress>>, <<>>, FALSE)
     ELSE LET o == SceneUpdateOutcome(call(rp), s.id)
          IN Step(o.outcome, <<Status(i + 1, o.what), progress>>,
                  <<Request(i + 1, s.id, "tag_ids", new_tag_ids)>>, TRUE)

\* Variant: the dry-run flag is not consulted
RenameSceneRecordIgnoresDryRun(i, total, s, title, dry, rp) ==
  LET o == SceneUpdateOutcome(call(rp), s.id)
  IN Step(o.outcome, <<Status(i + 1, o.what), Progress(i + 1, Percent(i + 1, total))>>,
          <<Request(i + 1, s.id, "title", title)>>, TRUE)

\* Variant: a record whose title is already the new title is passed over
RenameSceneRecordSkipsSameTitle(i, total, s, title, dry, rp) ==
  LET progress == Progress(i + 1, Percent(i + 1, total))
  IN IF s.title = title
       THEN Step("already", <<Status(i + 1, "Already named"), progress>>, <<>>, FALSE)
     ELSE IF dry
       THEN Step("updated", <<Status(i + 1, "Dry-run"), progress>>, <<>>, FALSE)
     ELSE LET o == SceneUpdateOutcome(call(rp), s.id)
          IN Step(o.outcome, <<Status(i + 1, o.what), progress>>,
                  <<Request(i + 1, s.id, "title", title)>>, TRUE)

\* RenameSceneWorker.run, the loop body
RenameSceneRecord(i, total, s, title, dry, rp) ==
  LET progress == Progress(i + 1, Percent(i + 1, total))
  IN IF dry
       THEN Step("updated", <<Status(i + 1, "Dry-run"), progress>>, <<>>, FALSE)
     ELSE LET o == SceneUpdateOutcome(call(rp), s.id)
          IN Step(o.outcome, <<Status(i + 1, o.what), progress>>,
                  <<Request(i + 1, s.id, "title", title)>>, TRUE)

\* The ids of a sequence, as a set
Range(seq) == {seq[k] : k \in 1..Len(seq)}

\* list(set(xs)): the members once each, in an order the code does not fix
ListOfSet(S) ==
  {f \in [1..Cardinality(S) -> S] : \A a, b \in 1..Cardinality(S) : a # b => f[a] # f[b]}

\* Variant: a request that raised is sent a second time
AssignPerformersRecordRetry(i, total, s, pids, dry, rp, new_performer_ids) ==
  LET all_already_assigned == \A k \in 1..Len(pids) : In(pids[k], s.performers)
      progress == Progress(i + 1, Percent(i + 1, total))
      req == Request(i + 1, s.id, "performer_ids", new_performer_ids)
  IN IF all_already_assigned
       THEN Step("already", <<Status(i + 1, "Already assigned"), progress>>, <<>>, FALSE)
     ELSE IF dry
       THEN Step("updated", <<Status(i + 1, "Dry-run"), progress>>, <<>>, FALSE)
     ELSE LET o == SceneUpdateOutcome(call(rp), s.id)
          IN Step(o.outcome, <<Status(i + 1, o.what), progress>>,
                  IF call(rp).raised THEN <<req, req>> ELSE <<req>>, TRUE)

\* AssignPerformersWorker.run, the loop body.  new_performer_ids is the
\* order list(set(...)) came out in.
AssignPerformersRecord(i, total, s, pids, dry, rp, new_performer_ids) ==
  LET current_performer_ids == s.performers
      all_already_assigned == \A k \in 1..Len(pids) : In(pids[k], current_performer_ids)
      progress == Progress(i + 1, Percent(i + 1, total))
  IN IF all_already_assigned
       THEN Step("already", <<Status(i + 1, "Already assigned"), progress>>, <<>>, FALSE)
     ELSE IF dry
       THEN Step("updated", <<Status(i + 1, "Dry-run"), progress>>, <<>>, FALSE)
     ELSE LET o == SceneUpdateOutcome(call(rp), s.id)
          IN Step(o.outcome, <<Status(i + 1, o.what), progress>>,
                  <<Request(i + 1, s.id, "performer_ids", new_performer_ids)>>, TRUE)

\* AssignStudioWorker._assign_studio_to_scene.  The client has no method
\* call_graphql, so the attribute lookup raises inside the try statement
\* before anything is sent; the except clause reports it and returns False.
assign_studio_to_scene(rec, scene_id, studio, rp) ==
  IF "call_graphql" \notin GraphQLClientMethods
    THEN [success |-> FALSE, events |-> <<Status(rec, "Error assigning studio")>>,
          reqs |-> <<>>]
  ELSE LET r == call(rp)
           req == Request(rec, scene_id, "studio_id", studio)
       IN IF r.raised
            THEN [success |-> FALSE, events |-> <<Status(rec, "Error assigning studio")>>,
                  reqs |-> <<req>>]
          ELSE IF r.value.has_data /\ r.value.data = "{sceneUpdate:{id}}"
            THEN [success |-> TRUE, events |-> <<Status(rec, "Assigned studio")>>,
                  reqs |-> <<req>>]
          ELSE [success |-> FALSE, events |-> <<Status(rec, "Failed to assign studio")>>,
                reqs |-> <<req>>]

\* AssignStudioWorker.run, the loop body
AssignStudioRecord(i, total, scene, studio, dry, rp) ==
  LET scene_id == scene.id
      current_studio_id == scene.studio
      progress == Progress(i + 1, Percent(i + 1, total))
  IN IF scene_id = None
       THEN Step("skipped_deleted", <<Status(i + 1, "Scene missing ID")>>, <<>>, FALSE)
     ELSE IF current_studio_id = studio
       THEN Step("already", <<Status(i + 1, "already has this studio"), progress>>, <<>>, FALSE)
     ELSE IF dry
       THEN Step("updated", <<Status(i + 1, "[DRY RUN]"), progress>>, <<>>, FALSE)
     ELSE LET a == assign_studio_to_scene(i + 1, scene_id, studio, rp)
          IN Step(IF a.success THEN "updated" ELSE "failed",
                  a.events \o <<progress>>, a.reqs, TRUE)

\* The summary dict each worker emits as its result
Summary(w, u, a, s, f) ==
  CASE w = "ApplyTagWorker" ->
         [updated |-> u, already_tagged |-> a, skipped_deleted |-> s, failed |-> f]
    [] w = "RenameSceneWorker" ->
         [updated |-> u, skipped_deleted |-> s, failed |-> f]
    [] OTHER ->
         [updated |-> u, already_assigned |-> a, skipped_deleted |-> s, failed |-> f]

\* What run() emits before its loop
StartEvents(w, total) ==
  IF w = "AssignStudioWorker" THEN <<>> ELSE <<Status(0, "Starting")>>

\* Variant: a closing status line after the summary
FinishEventsStatusLast(w) ==
  IF w = "AssignStudioWorker" THEN <<Result, Status(0, "done")>>
  ELSE <<Result, Progress(0, 100), Status(0, "done"), Finished>>

\* What run() emits after its loop: the summary, then (not in
\* AssignStudioWorker) progress 100 and, from the finally clause, finished
FinishEvents(w) ==
  IF w = "AssignStudioWorker" THEN <<Result>>
  ELSE <<Result, Progress(0, 100), Finished>>

\* The outer except clause of run(), with the finally clause where there is one
AbortEvents(w) ==
  IF w = "AssignStudioWorker" THEN <<Error("exception")>>
  ELSE <<Error("exception"), Status(0, "traceback"), Finished>>

----------------------------------------------------------------------------
(* The single-call workers                                                  *)

\* FetchTagWorker.run, FetchPerformersWorker.run, FetchStudiosWorker.run:
\* the events of the whole run, given the server's reply to its one query
LookupEvents(w, rp) ==
  LET r == call(rp)
      tb == <<Error("exception"), Status(0, "traceback"), Finished>>
  IN IF r.raised THEN <<Status(0, "Querying")>> \o tb
     ELSE IF ~r.value.has_data \/ r.value.data # "{find:{count}}"
       THEN <<Status(0, "Querying"), Progress(0, 50)>> \o tb
     ELSE IF w = "FetchTagWorker" /\ r.value.count = 0
       THEN <<Status(0, "Querying"), Progress(0, 50), Error("TAG_NOT_FOUND"),
              Status(0, "not found"), Finished>>
     ELSE <<Status(0, "Querying"), Progress(0, 50), Result, Progress(0, 100), Finished>>

\* SearchScenesWorker.run: the events of the whole run.  The filter sent and
\* the derived fields of the scenes returned are the payload of the query
\* and of the result event; they decide none of the events.
SearchEvents(rp) ==
  LET r == call(rp)
      tb == <<Error("exception"), Status(0, "traceback"), Finished>>
  IN IF r.raised \/ ~r.value.has_data \/ r.value.data # "{find:{count}}"
       THEN <<Status(0, "Searching scenes...")>> \o tb
     ELSE <<Status(0, "Searching scenes..."), Result, Progress(0, 100), Finished>>

----------------------------------------------------------------------------
(* The window's result table (SceneTableModel) and its file-size widgets.   *)
(* A text is the sequence of its code points, so that str.lower() and the   *)
(* ordering of strings are computed.                                        *)

ALL_COLUMNS == <<"Select", "ID", "Title", "Studio", "Performers", "Tags",
                 "Date", "Path", "Duration", "Dimensions", "Resolution", "File Size">>

\* Indices into ALL_COLUMNS, counted from 0 as in the source
DEFAULT_VISIBLE == <<0, 1, 2, 3, 4, 5, 6, 7, 8, 9, 10, 11>>

\* The value None of a numeric field
NoneNum == -1

\* str.lower() on the letters A-Z
Lower(text) ==
  [i \in 1..Len(text) |-> IF text[i] \in 65..90 THEN text[i] + 32 ELSE text[i]]

\* s < t on Python strings: by code point, a proper prefix first
TextLess(s, t) ==
  \E i \in 1..Len(t) :
    /\ \A j \in 1..(i - 1) : j <= Len(s) /\ s[j] = t[j]
    /\ Len(s) >= i - 1
    /\ (Len(s) = i - 1 \/ s[i] < t[i])

\* The order of two sort keys.  A key is a number with a text: a numeric
\* key has the empty text, a text key the number 0.
KeyLess(a, b) == a.num < b.num \/ (a.num = b.num /\ TextLess(a.text, b.text))

\* list.sort(key=..., reverse=...) and sorted(): a stable sort, also with
\* reverse=True (items with equal keys keep their order).  items[i].key is
\* the key of item i.
ListSort(items, reverse) ==
  LET n == Len(items)
      before(a, b) == IF reverse THEN KeyLess(b, a) ELSE KeyLess(a, b)
      key == [i \in 1..n |-> items[i].key]
      lt == [i \in 1..n |-> [j \in 1..n |-> before(key[i], key[j])]]
      pos == [i \in 1..n |->
                1 + Cardinality({j \in 1..n : lt[j][i]})
                  + Cardinality({j \in 1..(i - 1) : ~lt[j][i] /\ ~lt[i][j]})]
  IN [p \in 1..n |-> items[CHOOSE i \in 1..n : pos[i] = p]]

\* ", ".join(names)
RECURSIVE JoinNames(_)
JoinNames(names) ==
  IF names = <<>> THEN <<>>
  ELSE IF Len(names) = 1 THEN names[1]
  ELSE names[1] \o <<44, 32>> \o JoinNames(Tail(names))

\* ", ".join(sorted(names)).lower() if names else ""
NamesKey(names) ==
  LET keyed == [i \in 1..Len(names) |-> [key |-> [num |-> 0, text |-> names[i]]]]
      sorted == ListSort(keyed, FALSE)
  IN Lower(JoinNames([i \in 1..Len(names) |-> sorted[i].key.text]))

\* The resolution label of the normalizer (find_scenes_worker.py:218-232) as
\* its number and its suffix: "4K" is 4 with "K", "720p" is 720 with "p";
\* no label (None) has the empty suffix.
ResolutionLabel(h) ==
  IF h = NoneNum \/ h = 0 THEN [n |-> 0, suffix |-> ""]
  ELSE IF h >= 2160 THEN [n |-> 4, suffix |-> "K"]
  ELSE IF h >= 1440 THEN [n |-> 1440, suffix |-> "p"]
  ELSE IF h >= 1080 THEN [n |-> 1080, suffix |-> "p"]
  ELSE IF h >= 720 THEN [n |-> 720, suffix |-> "p"]
  ELSE IF h >= 480 THEN [n |-> 480, suffix |-> "p"]
  ELSE [n |-> h, suffix |-> "p"]

\* int(text) of a scene id; the ids of the records below
IdNumber(id) ==
  CASE id = "2" -> 2
    [] id = "9" -> 9
    [] id = "10" -> 10
    [] OTHER -> 0

\* A normalized scene as the table holds it.  Texts that are None are the
\* empty text, which is what every reader of them makes of None.
Row(id, title, studio, performers, tags, date, path, duration, width, height, filesize) ==
  [id |-> id, title |-> title, studio |-> studio, performers |-> performers,
   tags |-> tags, date |-> date, _path |-> path, _duration |-> duration,
   _width |-> width, _height |-> height, _resolution |-> ResolutionLabel(height),
   _filesize |-> filesize]

\* The records search results are made of.  Titles "b", "B", "a"; studios
\* "S", none, "s"; dates 2024, none, 2023; sizes 2048, none, 1024 bytes.
Rows ==
  <<Row("10", <<98>>, <<83>>, <<<<66>>, <<97>>>>, <<<<116>>>>, <<50, 48, 50, 52>>,
        <<47, 98>>, 40, 1920, 1080, 2048),
    Row("9", <<66>>, <<>>, <<>>, <<<<116>>>>, <<>>,
        <<>>, NoneNum, NoneNum, NoneNum, NoneNum),
    Row("2", <<97>>, <<115>>, <<<<97>>>>, <<<<84>>, <<97>>>>, <<50, 48, 50, 51>>,
        <<47, 65>>, 40, 3840, 2160, 1024)>>

\* sort_key of SceneTableModel.sort for column actual_col: a number for the
\* numeric columns, a text for the others
sort_key(actual_col, scene) ==
  LET num(n) == [num |-> n, text |-> <<>>]
      text(t) == [num |-> 0, text |-> t]
      orZero(v) == IF v = NoneNum THEN 0 ELSE v
  IN CASE actual_col = 1 -> num(IdNumber(scene.id))
       [] actual_col = 2 -> text(Lower(scene.title))
       [] actual_col = 3 -> text(Lower(scene.studio))
       [] actual_col = 4 -> text(NamesKey(scene.performers))
       [] actual_col = 5 -> text(NamesKey(scene.tags))
       [] actual_col = 6 -> text(scene.date)
       [] actual_col = 7 -> text(Lower(scene._path))
       [] actual_col = 8 -> num(orZero(scene._duration))
       [] actual_col = 9 -> num(orZero(scene._width) * orZero(scene._height))
       [] actual_col = 10 ->
            num(IF scene._resolution.suffix = "K" THEN scene._resolution.n * 1000
                ELSE scene._resolution.n)
       [] actual_col = 11 -> num(orZero(scene._filesize))
       [] OTHER -> text(<<>>)

\* The handler that ran last, when it was a sort request, an import or the
\* arrival of a search result, with what it was given: whether the header
\* section was the checkbox column, the id set of the import, the scenes
\* of the result
Op(name, selector, ids, found) ==
  [name |-> name, selector |-> selector, ids |-> ids, found |-> found]

\* Any other handler, or none yet
NoOp == Op("", FALSE, {}, <<>>)

\* The text of a line edit: empty, blanks only, not a number, or a decimal
\* number given in tenths
Text(kind, tenths) == [kind |-> kind, tenths |-> tenths]

NoText == Text("empty", 0)

\* The text of a duration field: empty, blanks only, not a duration, a
\* decimal number of seconds given in tenths, or fields separated by colons
\* (parts: the integer each field reads as, NoneNum for a field that is no
\* integer)
DurationText(kind, tenths, parts) == [kind |-> kind, tenths |-> tenths, parts |-> parts]

NoDurationText == DurationText("empty", 0, <<>>)

\* SceneTableModel([]) of MainWindow.__init__
TableConstructed ==
  /\ _scenes = <<>>
  /\ _checked = <<>>
  /\ _visible_columns = DEFAULT_VISIBLE
  /\ _sort_column = -1
  /\ _sort_order = "AscendingOrder"
  /\ op = NoOp
  /\ at = "idle"

\* MainWindow.__init__, the search form: every section is switched off, no
\* performer and no studio is selected, the duration operator is "between",
\* the resolution "equals" "1080p"
FormConstructed ==
  /\ search_edit = ""
  /\ selected_performers = <<>>
  /\ performer_logic_combo = 0
  /\ selected_studio = None
  /\ enable_date_filter_checkbox = FALSE
  /\ enable_duration_filter_checkbox = FALSE
  /\ duration_operator_combo = 6
  /\ duration_value1_edit = NoDurationText
  /\ duration_value2_edit = NoDurationText
  /\ enable_path_filter_checkbox = FALSE
  /\ path_search_edit = ""
  /\ enable_resolution_filter_checkbox = FALSE
  /\ resolution_operator_combo = 0
  /\ resolution_combo = 4

\* MainWindow.__init__ without the table: the widgets, the file-size
\* section switched off with the operator "between" and MB, and no search
\* started
WidgetsConstructed ==
  /\ enable_filesize_filter_checkbox = FALSE
  /\ filesize_operator_combo = 6
  /\ filesize_value1_edit = NoText
  /\ filesize_unit1_combo = "MB"
  /\ filesize_value2_edit = NoText
  /\ filesize_unit2_combo = "MB"
  /\ FormConstructed
  /\ pool = <<>>
  /\ calls = <<>>
  /\ queue = <<>>

\* MainWindow.__init__: the table is constructed on an empty list
WindowConstructed ==
  /\ TableConstructed
  /\ WidgetsConstructed

----------------------------------------------------------------------------
(* The state machine                                                        *)

\* A worker as its constructor leaves it
WorkerConstructed ==
  \E w \in Workers :
    /\ worker = w
    /\ dry_run \in (IF w \in BulkWorkers THEN BOOLEAN ELSE {FALSE})
    /\ scenes \in (IF w \in BulkWorkers THEN InputScenes(w) ELSE {<<>>})
    /\ tag_id = (IF w = "ApplyTagWorker" THEN "t1" ELSE None)
    /\ new_title = (IF w = "RenameSceneWorker" THEN "b" ELSE None)
    /\ performer_ids \in (IF w = "AssignPerformersWorker"
                            THEN {<<"p1", "p2">>, <<"p1", "p1">>}
                            ELSE {<<>>})
    /\ studio_id = (IF w = "AssignStudioWorker" THEN "s1" ELSE None)
    /\ pc = "ready"
    /\ idx = 0
    /\ updated = 0 /\ already = 0 /\ skipped_deleted = 0 /\ failed = 0
    /\ outcomes = <<>>
    /\ events = <<>>
    /\ requests = <<>>
    /\ results = <<>>
    /\ reply = NoReply
    /\ server = [k \in 1..Len(scenes) |-> scenes[k].tags]
    /\ run = 1

Init == WorkerConstructed /\ WindowConstructed

\* Variant: a skipped record is counted nowhere
TallyDropsSkipped(c, outcome) ==
  CASE outcome = "updated" -> [c EXCEPT !.updated = @ + 1]
    [] outcome = "already" -> [c EXCEPT !.already = @ + 1]
    [] outcome = "failed" -> [c EXCEPT !.failed = @ + 1]
    [] OTHER -> c

\* The counter a record's outcome increments
Tally(c, outcome) ==
  CASE outcome = "updated" -> [c EXCEPT !.updated = @ + 1]
    [] outcome = "already" -> [c EXCEPT !.already = @ + 1]
    [] outcome = "skipped_deleted" -> [c EXCEPT !.skipped_deleted = @ + 1]
    [] outcome = "failed" -> [c EXCEPT !.failed = @ + 1]
    [] OTHER -> c

\* Variant: the two lists are concatenated, nothing is de-duplicated
MergeOrdersConcat(w, s, pids) ==
  IF w = "AssignPerformersWorker" THEN {s.performers \o pids} ELSE {<<>>}

\* The orders list(set(current + requested)) can come out in
MergeOrders(w, s, pids) ==
  IF w = "AssignPerformersWorker"
    THEN ListOfSet(Range(s.performers) \cup Range(pids))
    ELSE {<<>>}

\* Variant: the worker stores the tag ids it has sent in its record
RecordAfterStoresSent(s, step) ==
  IF step.reqs # <<>> /\ step.reqs[1].field = "tag_ids"
    THEN [s EXCEPT !.tags = step.reqs[1].value]
    ELSE s

\* The record s after a pass of a loop body over it: the four workers read
\* the record with s.get(...) and assign to none of its keys
RecordAfter(s, step) == s

\* The loop body of the worker that is running
LoopBody(w, i, total, s, rp, order) ==
  CASE w = "ApplyTagWorker" -> ApplyTagRecord(i, total, s, tag_id, dry_run, rp)
    [] w = "RenameSceneWorker" -> RenameSceneRecord(i, total, s, new_title, dry_run, rp)
    [] w = "AssignPerformersWorker" ->
         AssignPerformersRecord(i, total, s, performer_ids, dry_run, rp, order)
    [] w = "AssignStudioWorker" -> AssignStudioRecord(i, total, s, studio_id, dry_run, rp)

\* The server answered the request for scene sid with a success response
SuccessReply(rp, sid) ==
  /\ rp.net = "ok" /\ rp.status = 200 /\ rp.parseable
  /\ rp.body.has_data /\ rp.body.data = "{sceneUpdate:{id}}" /\ rp.body.su_id = sid

\* The server's side of the sceneUpdate mutation with a tag_ids input
\* (apply_tag_worker.py:58-66): when it answers with the id of the scene it
\* has replaced the scene's tags by the ids sent; stored is what it held.
sceneUpdate(stored, reqs, rp) ==
  IF reqs # <<>> /\ reqs[1].field = "tag_ids" /\ SuccessReply(rp, reqs[1].id)
    THEN reqs[1].value
    ELSE stored

\* The server replies only when the loop body reaches its call
ServerReplies(w, i, ss, order) ==
  IF LoopBody(w, i, Len(ss), ss[i + 1], NoReply, order).attempted
    THEN Replies(MutationBodies(ss[i + 1].id))
    ELSE {NoReply}

\* run() up to its loop: the counters are zero, the start line is logged
BulkStart ==
  /\ pc = "ready"
  /\ worker \in BulkWorkers
  /\ pc' = "loop"
  /\ events' = events \o StartEvents(worker, Len(scenes))
  /\ UNCHANGED <<worker, dry_run, scenes, tag_id, new_title, performer_ids, studio_id,
                 idx, updated, already, skipped_deleted, failed, outcomes,
                 requests, results, reply, server, run>>
  /\ UNCHANGED <<tableVars, windowVars, searchVars, op, at>>

\* One pass of the loop of run(), for the record at index idx.  The
\* records of self.scenes are the objects the table holds
\* (get_selected_scenes returns the dicts of _scenes): what the pass leaves
\* in its record is left in the row of the table that holds it.
BulkRecord ==
  /\ pc = "loop"
  /\ idx < Len(scenes)
  /\ \E order \in MergeOrders(worker, scenes[idx + 1], performer_ids) :
     \E rp \in ServerReplies(worker, idx, scenes, order) :
       LET step == LoopBody(worker, idx, Len(scenes), scenes[idx + 1], rp, order)
           c == Tally([updated |-> updated, already |-> already,
                       skipped_deleted |-> skipped_deleted, failed |-> failed],
                      step.outcome)
       IN /\ requests' = requests \o step.reqs
          /\ reply' = rp
          /\ scenes' = [scenes EXCEPT ![idx + 1] = RecordAfter(@, step)]
          /\ _scenes' = [k \in 1..Len(_scenes) |->
                           IF _scenes[k].id = scenes[idx + 1].id
                             THEN RecordAfter(_scenes[k], step) ELSE _scenes[k]]
          /\ server' = [server EXCEPT ![idx + 1] = sceneUpdate(@, step.reqs, rp)]
          /\ IF step.outcome = "abort"
               THEN /\ events' = events \o step.events \o AbortEvents(worker)
                    /\ pc' = "done"
                    /\ UNCHANGED <<idx, outcomes, updated, already, skipped_deleted, failed>>
               ELSE /\ events' = events \o step.events
                    /\ outcomes' = Append(outcomes, step.outcome)
                    /\ idx' = idx + 1
                    /\ updated' = c.updated
                    /\ already' = c.already
                    /\ skipped_deleted' = c.skipped_deleted
                    /\ failed' = c.failed
                    /\ pc' = "loop"
  /\ UNCHANGED <<worker, dry_run, tag_id, new_title, performer_ids, studio_id,
                 results, run>>
  /\ UNCHANGED <<_checked, _visible_columns, _sort_column, _sort_order>>
  /\ UNCHANGED <<windowVars, searchVars, op, at>>

\* run() after its loop: the summary is emitted
BulkFinish ==
  /\ pc = "loop"
  /\ idx = Len(scenes)
  /\ results' = Append(results, Summary(worker, updated, already, skipped_deleted, failed))
  /\ events' = events \o FinishEvents(worker)
  /\ pc' = "done"
  /\ UNCHANGED <<worker, dry_run, scenes, tag_id, new_title, performer_ids, studio_id,
                 idx, updated, already, skipped_deleted, failed, outcomes,
                 requests, reply, server, run>>
  /\ UNCHANGED <<tableVars, windowVars, searchVars, op, at>>

\* A whole run of a lookup worker
LookupRun ==
  /\ pc = "ready"
  /\ worker \in LookupWorkers
  /\ \E rp \in Replies(QueryBodies) :
       /\ reply' = rp
       /\ events' = events \o LookupEvents(worker, rp)
       /\ results' = (IF \E k \in 1..Len(LookupEvents(worker, rp)) :
                            LookupEvents(worker, rp)[k].type = "result"
                        THEN Append(results, "found") ELSE results)
  /\ pc' = "done"
  /\ UNCHANGED <<worker, dry_run, scenes, tag_id, new_title, performer_ids, studio_id,
                 idx, updated, already, skipped_deleted, failed, outcomes, requests,
                 server, run>>
  /\ UNCHANGED <<tableVars, windowVars, searchVars, op, at>>

\* A whole run of the scene search worker
SearchRun ==
  /\ pc = "ready"
  /\ worker = "SearchScenesWorker"
  /\ \E rp \in Replies(QueryBodies) :
       /\ reply' = rp
       /\ events' = events \o SearchEvents(rp)
       /\ results' = (IF \E k \in 1..Len(SearchEvents(rp)) : SearchEvents(rp)[k].type = "result"
                        THEN Append(results, "scenes") ELSE results)
  /\ pc' = "done"
  /\ UNCHANGED <<worker, dry_run, scenes, tag_id, new_title, performer_ids, studio_id,
                 idx, updated, already, skipped_deleted, failed, outcomes, requests,
                 server, run>>
  /\ UNCHANGED <<tableVars, windowVars, searchVars, op, at>>

Next == BulkStart \/ BulkRecord \/ BulkFinish \/ LookupRun \/ SearchRun

Spec == Init /\ [][Next]_vars

----------------------------------------------------------------------------
(* Tag-apply, a re-fetch, tag-apply again                                   *)

\* The tags { id name } of a scene as findScenes returns them
\* (find_scenes_worker.py:48-51): the ids the server holds; the order is the
\* server's, here the stored order or its reverse
FetchedTags(stored) ==
  {stored, [k \in 1..Len(stored) |-> stored[Len(stored) + 1 - k]]}

\* The first tag-apply run is outside dry-run
InitRefetch == Init /\ worker = "ApplyTagWorker" /\ ~dry_run

\* After the summary of the first run: the search is run again and answers
\* (SearchScenesWorker.run), the window puts the records into the table with
\* every row selected (_on_scenes_found) and starts ApplyTagWorker on the
\* selection with the same tag (on_apply_tag).
Refetch ==
  /\ worker = "ApplyTagWorker"
  /\ pc = "done" /\ run = 1 /\ Len(results) = 1
  /\ run' = 2
  /\ \E t \in [1..Len(scenes) -> UNION {FetchedTags(server[k]) : k \in 1..Len(scenes)}] :
       /\ \A k \in 1..Len(scenes) : t[k] \in FetchedTags(server[k])
       /\ scenes' = [k \in 1..Len(scenes) |-> [scenes[k] EXCEPT !.tags = t[k]]]
  /\ dry_run' \in BOOLEAN
  /\ pc' = "ready"
  /\ idx' = 0
  /\ updated' = 0 /\ already' = 0 /\ skipped_deleted' = 0 /\ failed' = 0
  /\ outcomes' = <<>>
  /\ events' = <<>>
  /\ requests' = <<>>
  /\ reply' = NoReply
  /\ UNCHANGED <<worker, tag_id, new_title, performer_ids, studio_id, results, server>>
  /\ UNCHANGED <<tableVars, windowVars, searchVars, op, at>>

NextRefetch == BulkStart \/ BulkRecord \/ BulkFinish \/ Refetch

SpecRefetch == InitRefetch /\ [][NextRefetch]_vars

----------------------------------------------------------------------------
(* A bulk run on the selection of the table                                 *)

\* A search result is shown with every row but the last selected, and a
\* bulk action has been started on the selection (on_apply_tag and the
\* like: selected = self.table_model.get_selected_scenes()).  The rows are
\* given by the fields the workers read.
InitShared ==
  /\ WorkerConstructed /\ worker \in BulkWorkers
  /\ WidgetsConstructed
  /\ _scenes = scenes \o <<Scene(Len(scenes) + 1, "a", <<>>, <<>>, None)>>
  /\ _checked = [k \in 1..(Len(scenes) + 1) |-> k <= Len(scenes)]
  /\ _visible_columns = DEFAULT_VISIBLE
  /\ _sort_column = -1
  /\ _sort_order = "AscendingOrder"
  /\ op = NoOp
  /\ at = "idle"

NextShared == BulkStart \/ BulkRecord \/ BulkFinish

SpecShared == InitShared /\ [][NextShared]_vars

----------------------------------------------------------------------------
(* Tag-apply, then tag-apply with another tag on the same records          *)

\* The ids of the tags the user can fetch with on_get_tag
TagIds == {"t1", "t2", "t3"}

\* After the summary of a tag-apply run: _on_update_summary shows the
\* counts and leaves the table as it is; the user fetches another tag
\* (on_get_tag sets last_tag_id) and starts ApplyTagWorker on the same
\* selection (on_apply_tag), outside dry-run.
on_apply_tag_again(tag) ==
  /\ worker = "ApplyTagWorker"
  /\ pc = "done" /\ run = 1 /\ Len(results) = 1
  /\ tag # tag_id
  /\ run' = 2
  /\ tag_id' = tag
  /\ pc' = "ready"
  /\ idx' = 0
  /\ updated' = 0 /\ already' = 0 /\ skipped_deleted' = 0 /\ failed' = 0
  /\ outcomes' = <<>>
  /\ events' = <<>>
  /\ requests' = <<>>
  /\ reply' = NoReply
  /\ UNCHANGED <<worker, dry_run, scenes, new_title, performer_ids, studio_id,
                 results, server>>
  /\ UNCHANGED <<tableVars, windowVars, searchVars, op, at>>

NextAgain ==
  \/ BulkStart \/ BulkRecord \/ BulkFinish
  \/ \E tag \in TagIds : on_apply_tag_again(tag)

SpecAgain == InitRefetch /\ [][NextAgain]_vars

----------------------------------------------------------------------------
(* The table: the methods of SceneTableModel                                *)

MaxRows == 2

\* The scene lists a search can hand to the window: each record at most
\* once, the server returns a scene once
FoundLists ==
  UNION {{[i \in 1..n |-> Rows[f[i]]] :
            f \in {g \in [1..n -> 1..Len(Rows)] :
                     \A a, b \in 1..n : a # b => g[a] # g[b]}} : n \in 0..MaxRows}

\* The id sets read from a CSV file: ids of shown scenes and ids of none
IdSets == {{}, {"2"}, {"2", "10"}, {"77"}, {"9", "77"}}

\* The checked items of the column dialog, in dialog order
ColumnChoices == {DEFAULT_VISIBLE, <<11, 2>>}

\* Variant: the selection vector is left as it was
setScenesKeepsChecked(new_scenes) ==
  [_scenes |-> new_scenes, _checked |-> _checked]

\* Variant: the rows of the new list start selected
setScenesAllChecked(new_scenes) ==
  [_scenes |-> new_scenes, _checked |-> [i \in 1..Len(new_scenes) |-> TRUE]]

\* SceneTableModel.setScenes: what it assigns
setScenes(new_scenes) ==
  [_scenes |-> new_scenes, _checked |-> [i \in 1..Len(new_scenes) |-> FALSE]]

\* SceneTableModel.select_all: the new selection vector
select_all(val) ==
  IF _checked = <<>> THEN _checked
  ELSE [i \in 1..Len(_checked) |-> val]

\* Variant: rows already selected stay selected
select_by_ids_adds(id_set) ==
  IF _checked = <<>> THEN _checked
  ELSE [i \in 1..Len(_checked) |->
          IF i <= Len(_scenes) THEN _checked[i] \/ _scenes[i].id \in id_set
          ELSE _checked[i]]

\* SceneTableModel.select_by_ids: the new selection vector.  The loop runs
\* over the records and assigns the bit of each.
select_by_ids(id_set) ==
  IF _checked = <<>> THEN _checked
  ELSE [i \in 1..Len(_checked) |->
          IF i <= Len(_scenes) THEN _scenes[i].id \in id_set ELSE _checked[i]]

\* Variant: a request for the checkbox column is treated as any other
sort_returns_early_range_only(column) ==
  column < 0 \/ column >= Len(_visible_columns)

\* SceneTableModel.sort, lines 151-158: the requests it returns from at once
sort_returns_early(column) ==
  \/ column < 0 \/ column >= Len(_visible_columns)
  \/ _visible_columns[column + 1] = 0

\* Variant: the records are sorted, the selection vector stays in row order
combined_sort_records_only(actual_col, order) ==
  LET n == IF Len(_scenes) < Len(_checked) THEN Len(_scenes) ELSE Len(_checked)
      combined == [i \in 1..n |-> [scene |-> _scenes[i], checked |-> _checked[i],
                                   key |-> sort_key(actual_col, _scenes[i])]]
      sorted == ListSort(combined, order = "DescendingOrder")
  IN [i \in 1..n |-> [scene |-> sorted[i].scene, checked |-> _checked[i]]]

\* SceneTableModel.sort, lines 163-215: the records zipped with their bits,
\* sorted by the column's key
combined_sort(actual_col, order) ==
  LET n == IF Len(_scenes) < Len(_checked) THEN Len(_scenes) ELSE Len(_checked)
      combined == [i \in 1..n |-> [scene |-> _scenes[i], checked |-> _checked[i],
                                   key |-> sort_key(actual_col, _scenes[i])]]
  IN ListSort(combined, order = "DescendingOrder")

\* on_column_visibility, lines 2129-2134: the checkbox column is put first
EnsureSelectFirst(new_visible) ==
  <<0>> \o SelectSeq(new_visible, LAMBDA c : c # 0)

----------------------------------------------------------------------------
(* The file-size filter of _on_scenes_found                                 *)

\* The multipliers of parse_filesize_input
Multiplier(unit) ==
  CASE unit = "B" -> 1
    [] unit = "KB" -> 1024
    [] unit = "MB" -> 1024 * 1024
    [] unit = "GB" -> 1024 * 1024 * 1024
    [] OTHER -> 1

\* parse_filesize_input(size_str, unit): bytes, or None.  int() truncates
\* the product of the decimal number and the multiplier.
parse_filesize_input(size_str, unit) ==
  IF size_str.kind \in {"empty", "blank", "junk"} THEN NoneNum
  ELSE (size_str.tenths * Multiplier(unit)) \div 10

\* operator_map of _on_scenes_found, by index of the operator combo
operator_map ==
  <<"EQUALS", "NOT_EQUALS", "GREATER_THAN", "GREATER_THAN",
    "LESS_THAN", "LESS_THAN", "BETWEEN">>

\* size_ok of _on_scenes_found
size_ok(s, filesize_operator, filesize_value1, filesize_value2) ==
  LET fs == s._filesize
  IN IF fs = NoneNum THEN FALSE
     ELSE CASE filesize_operator = "EQUALS" -> fs = filesize_value1
            [] filesize_operator = "NOT_EQUALS" -> fs # filesize_value1
            [] filesize_operator = "GREATER_THAN" -> fs > filesize_value1
            [] filesize_operator = "LESS_THAN" -> fs < filesize_value1
            [] filesize_operator = "BETWEEN" ->
                 filesize_value1 <= fs /\ fs <= filesize_value2
            [] OTHER -> TRUE

\* _on_scenes_found, lines 2146-2216: the list to show, or a warning box
\* and a return that leaves the table as it is
FileSizeFilter(found) ==
  LET filesize_operator == operator_map[filesize_operator_combo + 1]
      stripped(t) == IF t.kind = "blank" THEN NoText ELSE t
      value1_input == stripped(filesize_value1_edit)
      value2_input == stripped(filesize_value2_edit)
      filesize_value1 == parse_filesize_input(value1_input, filesize_unit1_combo)
      filesize_value2 == parse_filesize_input(value2_input, filesize_unit2_combo)
      warned == [warned |-> TRUE, filtered |-> <<>>]
  IN IF ~enable_filesize_filter_checkbox THEN [warned |-> FALSE, filtered |-> found]
     ELSE IF value1_input.kind = "empty" THEN warned
     ELSE IF filesize_value1 = NoneNum THEN warned
     ELSE IF filesize_operator = "BETWEEN" /\ value2_input.kind = "empty" THEN warned
     ELSE IF filesize_operator = "BETWEEN" /\ filesize_value2 = NoneNum THEN warned
     ELSE [warned |-> FALSE,
           filtered |-> SelectSeq(found, LAMBDA sc :
                          size_ok(sc, filesize_operator, filesize_value1, filesize_value2))]

----------------------------------------------------------------------------
(* The handlers of the window and the table.  They run on the GUI thread,   *)
(* one at a time.                                                           *)

\* SceneTableModel.setData with CheckStateRole, called by the view for a
\* click on the cell (row, column): only the checkbox column is checkable
setData(row, column, is_checked) ==
  /\ at = "idle"
  /\ row \in 0..(Len(_scenes) - 1)
  /\ column \in 0..(Len(_visible_columns) - 1)
  /\ _checked' = IF _visible_columns[column + 1] = 0
                   THEN [_checked EXCEPT ![row + 1] = is_checked]
                   ELSE _checked
  /\ op' = NoOp
  /\ UNCHANGED <<_scenes, _visible_columns, _sort_column, _sort_order>>
  /\ UNCHANGED <<workerVars, windowVars, at, searchVars>>

\* MainWindow.on_select_all
on_select_all ==
  /\ at = "idle"
  /\ _checked' = select_all(TRUE)
  /\ op' = NoOp
  /\ UNCHANGED <<_scenes, _visible_columns, _sort_column, _sort_order>>
  /\ UNCHANGED <<workerVars, windowVars, at, searchVars>>

\* MainWindow.on_select_none
on_select_none ==
  /\ at = "idle"
  /\ _checked' = select_all(FALSE)
  /\ op' = NoOp
  /\ UNCHANGED <<_scenes, _visible_columns, _sort_column, _sort_order>>
  /\ UNCHANGED <<workerVars, windowVars, at, searchVars>>

\* MainWindow.on_import_csv with the ids read from the file: without ids
\* it warns and returns, else it calls select_by_ids
on_import_csv(ids) ==
  /\ at = "idle"
  /\ _checked' = IF ids = {} THEN _checked ELSE select_by_ids(ids)
  /\ op' = Op("on_import_csv", FALSE, ids, <<>>)
  /\ UNCHANGED <<_scenes, _visible_columns, _sort_column, _sort_order>>
  /\ UNCHANGED <<workerVars, windowVars, at, searchVars>>

\* SceneTableModel.sort, called by the view for a click on a header section
sort(column, order) ==
  /\ at = "idle"
  /\ op' = Op("sort", column \in 0..(Len(_visible_columns) - 1)
                         /\ _visible_columns[column + 1] = 0, {}, <<>>)
  /\ IF sort_returns_early(column)
       THEN UNCHANGED <<_scenes, _checked, _sort_column, _sort_order>>
       ELSE \E combined \in {combined_sort(_visible_columns[column + 1], order)} :
               /\ _scenes' = [i \in 1..Len(combined) |-> combined[i].scene]
               /\ _checked' = [i \in 1..Len(combined) |-> combined[i].checked]
               /\ _sort_column' = column
               /\ _sort_order' = order
  /\ UNCHANGED <<_visible_columns, workerVars, windowVars, at, searchVars>>

\* MainWindow.on_column_visibility with the dialog accepted, then
\* SceneTableModel.set_visible_columns
on_column_visibility(new_visible) ==
  /\ at = "idle"
  /\ _visible_columns' = EnsureSelectFirst(new_visible)
  /\ op' = NoOp
  /\ UNCHANGED <<_scenes, _checked, _sort_column, _sort_order>>
  /\ UNCHANGED <<workerVars, windowVars, at, searchVars>>

\* MainWindow._on_scenes_found up to and including setScenes (line 2219)
_on_scenes_found(found) ==
  /\ at = "idle"
  /\ LET f == FileSizeFilter(found)
     IN IF f.warned
          THEN /\ op' = Op("QMessageBox.warning", FALSE, {}, found)
               /\ UNCHANGED <<_scenes, _checked, at>>
          ELSE /\ op' = Op("_on_scenes_found", FALSE, {}, found)
               /\ _scenes' = setScenes(f.filtered)._scenes
               /\ _checked' = setScenes(f.filtered)._checked
               /\ at' = "replaced"
  /\ UNCHANGED <<_visible_columns, _sort_column, _sort_order, workerVars, windowVars>>

\* MainWindow._on_scenes_found from there to its end: every row shown is
\* selected (line 2233)
_on_scenes_found_select_all ==
  /\ at = "replaced"
  /\ _checked' = select_all(TRUE)
  /\ at' = "idle"
  /\ UNCHANGED <<_scenes, _visible_columns, _sort_column, _sort_order, op>>
  /\ UNCHANGED <<workerVars, windowVars, searchVars>>

\* The table is driven with the file-size section switched off
InitTable == Init /\ worker = "SearchScenesWorker"

NextTable ==
  \/ \E found \in FoundLists : _on_scenes_found(found) /\ UNCHANGED searchVars
  \/ _on_scenes_found_select_all
  \/ \E row \in 0..(MaxRows - 1), column \in 0..1, is_checked \in BOOLEAN :
       setData(row, column, is_checked)
  \/ on_select_all
  \/ on_select_none
  \/ \E ids \in IdSets : on_import_csv(ids)
  \/ \E column \in -1..Len(ALL_COLUMNS), order \in {"AscendingOrder", "DescendingOrder"} :
       sort(column, order)
  \/ \E new_visible \in ColumnChoices : on_column_visibility(new_visible)

SpecTable == InitTable /\ [][NextTable]_vars

----------------------------------------------------------------------------
(* Search results arriving with the file-size section filled in            *)

\* The texts typed into the two value fields
ValueTexts ==
  {NoText, Text("blank", 0), Text("junk", 0),
   Text("number", 10), Text("number", 15), Text("number", 20)}

\* The user has set the file-size widgets before the result arrives
InitFilter ==
  /\ WorkerConstructed /\ worker = "SearchScenesWorker"
  /\ TableConstructed
  /\ enable_filesize_filter_checkbox \in BOOLEAN
  /\ filesize_operator_combo \in 0..6
  /\ filesize_value1_edit \in ValueTexts
  /\ filesize_unit1_combo \in {"B", "KB"}
  /\ filesize_value2_edit \in {NoText, Text("junk", 0), Text("number", 20)}
  /\ filesize_unit2_combo = "KB"
  /\ FormConstructed
  /\ pool = <<>>
  /\ calls = <<>>
  /\ queue = <<>>

NextFilter ==
  \/ \E found \in FoundLists : _on_scenes_found(found) /\ UNCHANGED searchVars
  \/ _on_scenes_found_select_all

SpecFilter == InitFilter /\ [][NextFilter]_vars

----------------------------------------------------------------------------
(* The search form: MainWindow.on_search_scenes and the query that         *)
(* SearchScenesWorker sends                                                 *)

\* parse_duration_input: seconds, or None.  int(float(text)) of a decimal
\* number drops its fraction; MM:SS and HH:MM:SS are summed; any other
\* number of fields and any field that is no integer give None.
parse_duration_input(duration_str) ==
  LET parts == duration_str.parts
      ValueError == \E k \in 1..Len(parts) : parts[k] = NoneNum
  IN IF duration_str.kind \in {"empty", "blank"} THEN NoneNum
     ELSE IF duration_str.kind = "number" THEN duration_str.tenths \div 10
     ELSE IF duration_str.kind = "junk" THEN NoneNum
     ELSE IF Len(parts) = 2
       THEN (IF ValueError THEN NoneNum ELSE parts[1] * 60 + parts[2])
     ELSE IF Len(parts) = 3
       THEN (IF ValueError THEN NoneNum
             ELSE parts[1] * 3600 + parts[2] * 60 + parts[3])
     ELSE NoneNum

\* str.strip() on the texts typed here: "", " " and texts without blanks
strip(text) == IF text = " " THEN "" ELSE text

\* Variant: the second duration field is not tested for emptiness
SecondValueNotTested(duration_operator, value2_input) == FALSE

\* Lines 1809-1815: the operator is "between" and the second duration field
\* is empty
SecondValueMissing(duration_operator, value2_input) ==
  duration_operator = "BETWEEN" /\ value2_input.kind = "empty"

\* Variant: the operators >= and <= are sent as modifiers of their own
duration_operator_map_inclusive ==
  <<"EQUALS", "NOT_EQUALS", "GREATER_THAN", "GREATER_THAN_OR_EQUAL",
    "LESS_THAN", "LESS_THAN_OR_EQUAL", "BETWEEN">>

\* operator_map of the duration section of on_search_scenes, by index of the
\* operator combo: = != > >= < <= between
duration_operator_map ==
  <<"EQUALS", "NOT_EQUALS", "GREATER_THAN", "GREATER_THAN",
    "LESS_THAN", "LESS_THAN", "BETWEEN">>

\* resolution_map of on_search_scenes, by index of the resolution combo
resolution_map ==
  <<"VERY_LOW", "LOW", "STANDARD", "STANDARD_HD", "FULL_HD", "QUAD_HD",
    "VR_HD", "FOUR_K", "FIVE_K", "SIX_K", "EIGHT_K">>

\* operator_map of the resolution section of on_search_scenes
resolution_operator_map == <<"EQUALS", "NOT_EQUALS", "GREATER_THAN", "LESS_THAN">>

\* The two QDateEdit fields always hold a date; toString("yyyy-MM-dd")
date_from_edit == "2024-01-01"

date_to_edit == "2024-12-31"

\* self.per_page_spin.value()
per_page_spin == 100

\* SearchScenesWorker.__init__: the fields of the worker.  A text that is
\* None is the empty text (the worker tests them for truth only), a
\* duration that is None is NoneNum.
SearchScenesWorker(search_term, performer_ids_, performer_logic, studio_id_, date_from, date_to, duration_value1, duration_value2, duration_operator, path_query, resolution_enum, resolution_operator, per_page) ==
  [search_term |-> search_term, performer_ids |-> performer_ids_,
   performer_logic |-> performer_logic, studio_id |-> studio_id_,
   date_from |-> date_from, date_to |-> date_to,
   duration_value1 |-> duration_value1, duration_value2 |-> duration_value2,
   duration_operator |-> duration_operator, path_query |-> path_query,
   resolution_enum |-> resolution_enum,
   resolution_operator |-> resolution_operator, per_page |-> per_page]

\* What on_search_scenes comes to for the form as it stands: the title of
\* the warning box it returns after ("" when it shows none) and the worker
\* it constructs.  The file-size fields are not read here, only the
\* checkbox of the section.
SearchForm ==
  LET search_term == strip(search_edit)
      performer_ids_ == selected_performers
      performer_logic == IF performer_logic_combo = 0 THEN "AND" ELSE "OR"
      studio_id_ == IF selected_studio # None THEN selected_studio ELSE ""
      date_from == IF enable_date_filter_checkbox THEN date_from_edit ELSE ""
      date_to == IF enable_date_filter_checkbox THEN date_to_edit ELSE ""
      duration_operator ==
        IF enable_duration_filter_checkbox
          THEN duration_operator_map[duration_operator_combo + 1] ELSE "BETWEEN"
      stripped(t) == IF t.kind = "blank" THEN NoDurationText ELSE t
      value1_input == stripped(duration_value1_edit)
      value2_input == stripped(duration_value2_edit)
      duration_value1 ==
        IF enable_duration_filter_checkbox
          THEN parse_duration_input(value1_input) ELSE NoneNum
      duration_value2 ==
        IF enable_duration_filter_checkbox /\ duration_operator = "BETWEEN"
          THEN parse_duration_input(value2_input) ELSE NoneNum
      path_query == IF enable_path_filter_checkbox THEN strip(path_search_edit) ELSE ""
      resolution_enabled == enable_resolution_filter_checkbox
      resolution_enum ==
        IF resolution_enabled THEN resolution_map[resolution_combo + 1] ELSE ""
      resolution_operator ==
        IF resolution_enabled
          THEN resolution_operator_map[resolution_operator_combo + 1] ELSE "EQUALS"
      per_page == IF enable_filesize_filter_checkbox THEN 10000 ELSE per_page_spin
      worker_ == SearchScenesWorker(search_term, performer_ids_, performer_logic,
                                    studio_id_, date_from, date_to, duration_value1,
                                    duration_value2, duration_operator, path_query,
                                    resolution_enum, resolution_operator, per_page)
      warning(title) == [warning |-> title, worker |-> worker_]
  IN IF enable_duration_filter_checkbox /\ value1_input.kind = "empty"
       THEN warning("Missing value")
     ELSE IF enable_duration_filter_checkbox /\ duration_value1 = NoneNum
       THEN warning("Invalid duration")
     ELSE IF enable_duration_filter_checkbox
             /\ SecondValueMissing(duration_operator, value2_input)
       THEN warning("Missing value")
     ELSE IF enable_duration_filter_checkbox /\ duration_operator = "BETWEEN"
             /\ duration_value2 = NoneNum
       THEN warning("Invalid duration")
     ELSE IF enable_path_filter_checkbox /\ path_query = ""
       THEN warning("Missing value")
     ELSE IF /\ search_term = "" /\ performer_ids_ = <<>> /\ studio_id_ = ""
             /\ date_from = "" /\ date_to = "" /\ duration_value1 = NoneNum
             /\ ~enable_filesize_filter_checkbox
             /\ path_query = "" /\ ~resolution_enabled
       THEN warning("Missing")
     ELSE warning("")

\* One entry of scene_filter: the criterion of a key, or the key's absence
Criterion(value, value2, modifier) ==
  [has |-> TRUE, value |-> value, value2 |-> value2, modifier |-> modifier]

NoCriterion == [has |-> FALSE]

\* SearchScenesWorker.run, lines 72-143: the scene_filter of worker w.  A
\* criterion without "value2" has the value2 of an absent one here.
scene_filter(w) ==
  [title |-> IF w.search_term # ""
               THEN Criterion(w.search_term, "", "INCLUDES") ELSE NoCriterion,
   performers |-> IF w.performer_ids # <<>>
                    THEN Criterion(w.performer_ids, <<>>,
                                   IF w.performer_logic = "AND"
                                     THEN "INCLUDES_ALL" ELSE "INCLUDES")
                    ELSE NoCriterion,
   studios |-> IF w.studio_id # ""
                 THEN Criterion(<<w.studio_id>>, <<>>, "INCLUDES") ELSE NoCriterion,
   date |-> IF w.date_from # "" /\ w.date_to # ""
              THEN Criterion(w.date_from, w.date_to, "BETWEEN")
            ELSE IF w.date_from # "" THEN Criterion(w.date_from, "", "GREATER_THAN")
            ELSE IF w.date_to # "" THEN Criterion(w.date_to, "", "LESS_THAN")
            ELSE NoCriterion,
   duration |-> IF w.duration_value1 # NoneNum
                  THEN (IF w.duration_operator = "BETWEEN" /\ w.duration_value2 # NoneNum
                          THEN Criterion(w.duration_value1, w.duration_value2, "BETWEEN")
                          ELSE Criterion(w.duration_value1, NoneNum, w.duration_operator))
                  ELSE NoCriterion,
   path |-> IF w.path_query # ""
              THEN Criterion(w.path_query, "", "INCLUDES") ELSE NoCriterion,
   resolution |-> IF w.resolution_enum # ""
                    THEN Criterion(w.resolution_enum, "", w.resolution_operator)
                    ELSE NoCriterion]

----------------------------------------------------------------------------
(* The normalizer of SearchScenesWorker.run: the derived fields of a scene  *)

MaxFiles == 2

\* A JSON value of a numeric file field: a number, a string of digits (with
\* or without thousands separators), a string that is no number, or null
Json(type, n, commas) == [type |-> type, n |-> n, commas |-> commas]

Number(n) == Json("number", n, FALSE)

Null == Json("null", NoneNum, FALSE)

\* One entry of "files" as the query returns it
File(size, duration, path, width, height) ==
  [size |-> size, duration |-> duration, path |-> path,
   width |-> width, height |-> height]

\* A scene as findScenes returns it.  Texts are sequences of code points,
\* tags and performers the lists of their names.
RawScene(id, title, studio, performers, tags, date, files) ==
  [id |-> id, title |-> title, studio |-> studio, performers |-> performers,
   tags |-> tags, date |-> date, files |-> files]

\* Lines 167-182: the size a file adds to sizes, NoneNum when it adds none.
\* A string is stripped of its commas before int().
SizeOf(v) ==
  IF v.type = "null" THEN NoneNum
  ELSE IF v.type = "number" THEN v.n
  ELSE v.n

\* Lines 185-190 and 198-209: float(dur), int(w), int(h); a string with
\* commas raises ValueError and adds nothing
NumberOf(v) ==
  IF v.type = "null" THEN NoneNum
  ELSE IF v.type = "number" THEN v.n
  ELSE IF v.commas THEN NoneNum
  ELSE v.n

\* Variant: the value of the first file that has one
FirstOrNone(values) ==
  IF values = <<>> THEN NoneNum ELSE values[1]

\* max(values) if values else None
MaxOrNone(values) ==
  IF values = <<>> THEN NoneNum
  ELSE CHOOSE m \in Range(values) : \A n \in Range(values) : n <= m

\* Lines 156-234: the scene with its derived fields.  _resolution is
\* computed from _height by ResolutionLabel (lines 218-234).  Every entry
\* of files is an object, so nothing in the block raises and the except
\* clause (lines 236-242) is not entered.
Normalize(s) ==
  LET n == Len(s.files)
      appended(values) == SelectSeq(values, LAMBDA v : v # NoneNum)
      sizes == appended([k \in 1..n |-> SizeOf(s.files[k].size)])
      durations == appended([k \in 1..n |-> NumberOf(s.files[k].duration)])
      paths == SelectSeq([k \in 1..n |-> s.files[k].path], LAMBDA p : p # <<>>)
      widths == appended([k \in 1..n |-> NumberOf(s.files[k].width)])
      heights == appended([k \in 1..n |-> NumberOf(s.files[k].height)])
  IN Row(s.id, s.title, s.studio, s.performers, s.tags, s.date,
         IF paths # <<>> THEN paths[1] ELSE <<>>,
         MaxOrNone(durations), MaxOrNone(widths), MaxOrNone(heights),
         MaxOrNone(sizes))

----------------------------------------------------------------------------
(* Searches: the handler that starts one, the worker's run, the delivery    *)
(* of its result to the GUI thread                                          *)

\* MainWindow.on_search_scenes: after a warning box it returns, else it
\* constructs the worker and hands it to the thread pool.  A worker is kept
\* with n, its number among the searches started.
on_search_scenes ==
  /\ at = "idle"
  /\ LET f == SearchForm
     IN IF f.warning # ""
          THEN /\ op' = Op(f.warning, FALSE, {}, <<>>)
               /\ UNCHANGED pool
          ELSE /\ op' = Op("on_search_scenes", FALSE, {}, <<>>)
               /\ pool' = Append(pool, [n |-> Len(pool) + Len(calls) + 1,
                                        worker |-> f.worker])
  /\ UNCHANGED <<calls, queue, workerVars, tableVars, windowVars, at>>

\* The server found these scenes and answered with an HTTP 200 that parses
FoundReply(rp) ==
  /\ rp.net = "ok" /\ rp.status = 200 /\ rp.parseable
  /\ rp.body.has_data /\ rp.body.data = "{find:{count}}"

\* SearchScenesWorker.run of the worker at position k of the pool, on a
\* thread of the pool: the one call with its variables, then the result
\* signal with the normalized scenes, or the error signal (which changes
\* nothing in the window but its log).  rp is the server's reply, raw the
\* scenes in it.
SearchScenesWorker_run(k, rp, raw) ==
  /\ k \in 1..Len(pool)
  /\ LET w == pool[k].worker
         variables == [filter |-> [per_page |-> w.per_page],
                       scene_filter |-> scene_filter(w)]
         data == call(rp)
         scenes_ == [i \in 1..Len(raw) |-> Normalize(raw[i])]
     IN /\ calls' = Append(calls, [n |-> pool[k].n, variables |-> variables,
                                   reply |-> rp, raw |-> raw, scenes |-> scenes_])
        /\ queue' = IF data.raised \/ ~data.value.has_data
                       \/ data.value.data # "{find:{count}}"
                      THEN queue
                      ELSE Append(queue, [n |-> pool[k].n, scenes |-> scenes_])
  /\ pool' = SubSeq(pool, 1, k - 1) \o SubSeq(pool, k + 1, Len(pool))
  /\ UNCHANGED <<workerVars, tableVars, windowVars, op, at>>

\* The event loop of the GUI thread delivers the oldest queued result
\* signal to its slot, _on_scenes_found
result_emit ==
  /\ queue # <<>>
  /\ _on_scenes_found(Head(queue).scenes)
  /\ queue' = Tail(queue)
  /\ UNCHANGED <<pool, calls>>

\* The number of searches started so far
Searches == Len(pool) + Len(calls)

\* The replies of the server to a search: none in time, or the scenes found
SearchReplies ==
  {HttpReply("timeout", 0, FALSE, NoBody),
   HttpReply("ok", 200, TRUE, Body(TRUE, "{find:{count}}", None, 1, FALSE, <<>>))}

\* A file as the server holds it: every field a JSON number, 1080 lines
PlainFile(size, path) == File(Number(size), Number(40), path, Number(1920), Number(1080))

\* The scenes of the server's answers below, with one file each
RawScenes ==
  <<RawScene("10", <<98>>, <<83>>, <<<<66>>>>, <<<<116>>>>, <<50, 48, 50, 52>>,
             <<PlainFile(2048, <<47, 98>>)>>),
    RawScene("2", <<97>>, <<>>, <<>>, <<>>, <<>>,
             <<PlainFile(1024, <<47, 65>>)>>)>>

\* The scene lists a reply carries: with the scenes found, a list of
\* RawScenes; with any other reply, none
RawLists(rp, lists) == IF FoundReply(rp) THEN lists ELSE {<<>>}

----------------------------------------------------------------------------
(* One search from a form the user has filled in                            *)

\* The texts typed into the first duration field: "", " ", "abc", "600",
\* "600.5", "10:30", "1:00:30", "1:xx", "1:2:3:4"
DurationTexts ==
  {NoDurationText, DurationText("blank", 0, <<>>), DurationText("junk", 0, <<>>),
   DurationText("number", 6000, <<>>), DurationText("number", 6005, <<>>),
   DurationText("clock", 0, <<10, 30>>), DurationText("clock", 0, <<1, 0, 30>>),
   DurationText("clock", 0, <<1, NoneNum>>), DurationText("clock", 0, <<1, 2, 3, 4>>)}

\* The other criteria of the form, at most one of them set
OtherCriteria == {"", "performers", "studio", "date", "resolution"}

\* The form as the user has left it; a section that is switched off keeps
\* the fields it was constructed with
InitSearch ==
  /\ WorkerConstructed /\ worker = "SearchScenesWorker"
  /\ TableConstructed
  /\ pool = <<>> /\ calls = <<>> /\ queue = <<>>
  /\ search_edit \in {"", " ", "x"}
  /\ \E other \in OtherCriteria :
       /\ selected_performers = (IF other = "performers" THEN <<"p1">> ELSE <<>>)
       /\ selected_studio = (IF other = "studio" THEN "s1" ELSE None)
       /\ enable_date_filter_checkbox = (other = "date")
       /\ enable_resolution_filter_checkbox = (other = "resolution")
  /\ performer_logic_combo = 0
  /\ resolution_operator_combo = 0
  /\ resolution_combo = 4
  /\ enable_duration_filter_checkbox \in BOOLEAN
  /\ IF enable_duration_filter_checkbox
       THEN /\ duration_operator_combo \in 0..6
            /\ duration_value1_edit \in DurationTexts
            /\ duration_value2_edit \in {NoDurationText, DurationText("junk", 0, <<>>),
                                         DurationText("number", 7000, <<>>)}
       ELSE /\ duration_operator_combo = 6
            /\ duration_value1_edit = NoDurationText
            /\ duration_value2_edit = NoDurationText
  /\ enable_path_filter_checkbox \in BOOLEAN
  /\ path_search_edit \in (IF enable_path_filter_checkbox THEN {"", " ", "/a"} ELSE {""})
  /\ enable_filesize_filter_checkbox \in BOOLEAN
  /\ IF enable_filesize_filter_checkbox
       THEN /\ filesize_operator_combo = 6
            /\ filesize_value1_edit \in {NoText, Text("junk", 0), Text("number", 10)}
       ELSE /\ filesize_operator_combo = 6
            /\ filesize_value1_edit = NoText
  /\ filesize_unit1_combo = "KB"
  /\ filesize_value2_edit = NoText
  /\ filesize_unit2_combo = "KB"

NextSearch ==
  \/ Searches = 0 /\ on_search_scenes
  \/ \E k \in 1..Len(pool), rp \in SearchReplies :
       \E raw \in RawLists(rp, {<<>>, <<RawScenes[1]>>}) :
         SearchScenesWorker_run(k, rp, raw)
  \/ result_emit
  \/ _on_scenes_found_select_all

SpecSearch == InitSearch /\ [][NextSearch]_vars

----------------------------------------------------------------------------
(* One search by title, answered with a scene and its files                 *)

\* The user has typed a title into the search field of the form as it
\* was constructed
TitleTyped ==
  /\ WorkerConstructed /\ worker = "SearchScenesWorker"
  /\ TableConstructed
  /\ enable_filesize_filter_checkbox = FALSE
  /\ filesize_operator_combo = 6
  /\ filesize_value1_edit = NoText
  /\ filesize_unit1_combo = "MB"
  /\ filesize_value2_edit = NoText
  /\ filesize_unit2_combo = "MB"
  /\ search_edit = "x"
  /\ selected_performers = <<>>
  /\ performer_logic_combo = 0
  /\ selected_studio = None
  /\ enable_date_filter_checkbox = FALSE
  /\ enable_duration_filter_checkbox = FALSE
  /\ duration_operator_combo = 6
  /\ duration_value1_edit = NoDurationText
  /\ duration_value2_edit = NoDurationText
  /\ enable_path_filter_checkbox = FALSE
  /\ path_search_edit = ""
  /\ enable_resolution_filter_checkbox = FALSE
  /\ resolution_operator_combo = 0
  /\ resolution_combo = 4
  /\ pool = <<>> /\ calls = <<>> /\ queue = <<>>

\* The heights of the files below: each threshold of the label, the
\* height under it, and the heights 0, 240 and 4320
Heights == {0, 240, 479, 480, 719, 720, 1079, 1080, 1439, 1440, 2159, 2160, 4320}

\* The files of the answers: one of 100 bytes, 10 seconds and 1280 wide at
\* each height and without a height; files that are larger, longer or
\* wider than it in some fields and smaller in others; files whose size
\* or width is a string or null.  A file has a path (the server keeps a
\* file by its path).
FileShapes ==
     {File(Number(100), Number(10), <<47, 97>>, Number(1280), h) :
        h \in {Number(n) : n \in Heights} \cup {Null}}
  \cup {File(Number(250), Number(40), <<47, 98>>, Number(1920), Number(1080)),
        File(Number(300), Number(5), <<47, 99>>, Number(640), Number(2160)),
        File(Json("string", 2048, TRUE), Number(10), <<47, 100>>,
             Json("string", 1920, TRUE), Number(720)),
        File(Json("string", NoneNum, FALSE), Null, <<47, 101>>, Null, Number(480)),
        File(Null, Number(20), <<47, 102>>, Json("string", 800, FALSE), Number(600))}

\* The answers: one scene with up to MaxFiles files
FileLists == UNION {[1..n -> FileShapes] : n \in 0..MaxFiles}

ScenesWithFiles ==
  {<<RawScene("10", <<98>>, <<83>>, <<<<66>>>>, <<<<116>>>>, <<50, 48, 50, 52>>, files)>> :
     files \in FileLists}

NextNormalize ==
  \/ Searches = 0 /\ on_search_scenes
  \/ \E k \in 1..Len(pool), rp \in SearchReplies :
       \E raw \in RawLists(rp, ScenesWithFiles) :
         SearchScenesWorker_run(k, rp, raw)
  \/ result_emit
  \/ _on_scenes_found_select_all

SpecNormalize == TitleTyped /\ [][NextNormalize]_vars

----------------------------------------------------------------------------
(* Searches started one after the other                                     *)

MaxSearches == 2

\* The scene lists the server answers a search with; what it holds can
\* differ from one search to the next
AnswerLists == {<<>>, <<RawScenes[1]>>, <<RawScenes[2]>>}

\* The pool runs its workers on threads of its own: a worker started later
\* can get its answer first.
NextSearches ==
  \/ Searches < MaxSearches /\ on_search_scenes
  \/ \E k \in 1..Len(pool), rp \in SearchReplies :
       \E raw \in RawLists(rp, AnswerLists) :
         SearchScenesWorker_run(k, rp, raw)
  \/ result_emit
  \/ _on_scenes_found_select_all

SpecSearches == TitleTyped /\ [][NextSearches]_vars

----------------------------------------------------------------------------
(* Vocabulary of the properties                                             *)

RECURSIVE SumOver(_, _)
SumOver(f, S) ==
  IF S = {} THEN 0
  ELSE LET x == CHOOSE y \in S : TRUE IN f[x] + SumOver(f, S \ {x})

\* The sum of all counts of a summary
SummaryTotal(s) == SumOver(s, DOMAIN s)

\* Positions of the events of one type
Positions(type) == {k \in 1..Len(events) : events[k].type = type}

\* The record already satisfies what the run asks for
Satisfied(s) ==
  CASE worker = "ApplyTagWorker" -> tag_id \in Range(s.tags)
    [] worker = "AssignPerformersWorker" -> Range(performer_ids) \subseteq Range(s.performers)
    [] worker = "AssignStudioWorker" -> s.studio = studio_id
    [] OTHER -> FALSE

\* The server answered with a response whose error text names a foreign
\* key, in any letter case
ForeignKeyReply(rp) ==
  /\ rp.net = "ok" /\ rp.status = 200 /\ rp.parseable /\ rp.body.has_errors
  /\ \E k \in 1..Len(rp.body.errors) :
       \E i \in 1..(Len(rp.body.errors[k]) - 1) :
          /\ rp.body.errors[k][i] \in {"FOREIGN", "foreign", "Foreign"}
          /\ rp.body.errors[k][i + 1] \in {"KEY", "key", "Key"}

\* A mutation was attempted for the record the loop finished last
Attempted == pc = "loop" /\ idx > 0 /\ reply # NoReply

----------------------------------------------------------------------------
(* Properties of the bulk runs                                              *)

\* C1: in each of the four bulk kinds, dry-run or not, every input record
\* gets exactly one outcome: the counters always add up to the number of
\* records finished, and the counts of the emitted summary add up to the
\* number of input records.
C1_SummaryCountsEveryRecord ==
  worker \in BulkWorkers =>
    /\ Len(outcomes) = idx
    /\ updated + already + skipped_deleted + failed = idx
    /\ \A k \in 1..Len(results) : SummaryTotal(results[k]) = Len(scenes)

C1_Witness ==
  /\ worker = "ApplyTagWorker" /\ ~dry_run /\ pc = "done"
  /\ outcomes = <<"already", "skipped_deleted">>
  /\ Len(results) = 1

\* C2: in each of the four bulk kinds, not in dry-run, a record that is not
\* already satisfied and whose request the server answers with a success
\* response gets outcome updated and is counted in updated.
C2_SuccessIsUpdated ==
  (worker \in BulkWorkers /\ ~dry_run /\ Attempted /\ SuccessReply(reply, scenes[idx].id))
    => (outcomes[idx] = "updated" /\ updated >= 1)

\* C3: in each of the four bulk kinds, a non-success response whose error
\* text contains FOREIGN KEY in any letter case gives the record the outcome
\* skipped-missing-reference, counted in skipped_deleted and not in failed.
C3_ForeignKeyIsSkipped ==
  (worker \in BulkWorkers /\ Attempted /\ ForeignKeyReply(reply)
     /\ ~SuccessReply(reply, scenes[idx].id))
    => (outcomes[idx] = "skipped_deleted" /\ skipped_deleted >= 1)

\* C4: a request-level exception on a record gives that record the outcome
\* failed and never aborts the run: no error event is emitted, and a run
\* that has ended has decided every record and emitted exactly one summary.
C4_ExceptionFailsRecordOnly ==
  worker \in BulkWorkers =>
    /\ (Attempted /\ call(reply).raised) => (outcomes[idx] = "failed" /\ failed >= 1)
    /\ Positions("error") = {}
    /\ pc = "done" => (Len(outcomes) = Len(scenes) /\ Cardinality(Positions("result")) = 1)

C4_Witness ==
  /\ worker = "ApplyTagWorker" /\ pc = "done"
  /\ outcomes = <<"failed", "updated">>
  /\ \E k \in 1..Len(events) : events[k] = Status(1, "Exception")

\* C5: in tag-apply, performer-assign and studio-assign, dry-run or not, a
\* record that already satisfies the request gets the outcome
\* already-satisfied and no request is issued for it.
C5_SatisfiedIsSkippedWithoutCall ==
  worker \in BulkWorkers =>
    \A k \in 1..idx :
      Satisfied(scenes[k]) =>
        /\ outcomes[k] = "already"
        /\ \A q \in 1..Len(requests) : requests[q].rec # k

C5_Witness ==
  /\ worker = "AssignPerformersWorker" /\ ~dry_run /\ idx = 2
  /\ outcomes[1] = "already" /\ Len(requests) = 1

\* C6: in a dry-run of any of the four kinds no request is issued at any
\* point, and every record not already satisfied gets the outcome updated.
C6_DryRunIssuesNoCall ==
  (worker \in BulkWorkers /\ dry_run) =>
    /\ requests = <<>>
    /\ reply = NoReply
    /\ \A k \in 1..idx : ~Satisfied(scenes[k]) => outcomes[k] = "updated"

C6_Witness ==
  /\ worker = "RenameSceneWorker" /\ dry_run /\ pc = "done" /\ updated = 2

\* C7: in every bulk run, exactly one progress event is emitted for each
\* input record, after the record's status line and before anything about
\* the next record; the values lie in 0..100, never decrease, and the one
\* for the last record is 100.
C7_OneProgressPerRecord ==
  worker \in BulkWorkers =>
    /\ \A k \in 1..idx :
         Cardinality({p \in Positions("progress") : events[p].rec = k}) = 1
    /\ \A p \in Positions("progress") : events[p].rec <= idx /\ events[p].val \in 0..100
    /\ \A p \in Positions("progress") : \A q \in 1..Len(events) :
         /\ (events[q].type = "status" /\ events[q].rec = events[p].rec /\ events[p].rec > 0)
              => q < p
         /\ (events[q].rec > events[p].rec /\ events[p].rec > 0) => p < q
    /\ \A p, q \in Positions("progress") : p < q => events[p].val <= events[q].val
    /\ \A p \in Positions("progress") : events[p].rec = Len(scenes) => events[p].val = 100

C7_Witness ==
  /\ worker = "AssignStudioWorker" /\ idx = 2
  /\ \E p, q \in Positions("progress") :
       p < q /\ events[p] = Progress(1, 50) /\ events[q] = Progress(2, 100)

C9_FinishedIsLastEvent ==
  pc = "done" =>
    /\ Cardinality(Positions("finished")) = 1
    /\ events[Len(events)].type = "finished"

\* C10: within one bulk run, requests are issued one at a time in input
\* order with no retry: at most one request per record, none for a record
\* before every earlier record's outcome is decided, and the status lines
\* about records appear in input order.
C10_SequentialNoRetry ==
  worker \in BulkWorkers =>
    /\ \A a, b \in 1..Len(requests) : a < b => requests[a].rec < requests[b].rec
    /\ \A a \in 1..Len(requests) :
         requests[a].rec \in 1..idx /\ requests[a].id = scenes[requests[a].rec].id
    /\ \A p, q \in Positions("status") :
         (p < q /\ events[p].rec > 0 /\ events[q].rec > 0) => events[p].rec <= events[q].rec

C10_Witness ==
  /\ worker = "RenameSceneWorker" /\ ~dry_run /\ pc = "done"
  /\ Len(requests) = 2 /\ requests[1].rec = 1 /\ requests[2].rec = 2

----------------------------------------------------------------------------
(* Tag-apply twice                                                          *)

\* C11: tag-apply is idempotent across a re-fetch: when a run outside
\* dry-run with tag T succeeded for every record and the records are then
\* fetched again, a second run with T on the same records gives every
\* record the outcome already-satisfied and issues no request.
C11_SecondRunAllAlready ==
  (run = 2 /\ results[1].failed = 0 /\ results[1].skipped_deleted = 0) =>
    /\ requests = <<>>
    /\ reply = NoReply
    /\ \A k \in 1..idx : outcomes[k] = "already"
    /\ Len(results) = 2 =>
         results[2] = Summary("ApplyTagWorker", 0, Len(scenes), 0, 0)

C11_Witness ==
  /\ run = 2 /\ pc = "done" /\ Len(results) = 2
  /\ results[1].updated = 2 /\ results[1].already_tagged = 0
  /\ results[2].already_tagged = 2

----------------------------------------------------------------------------
(* Properties of the requests                                               *)

\* How many times x occurs in a sequence
Occurrences(x, seq) == Cardinality({k \in 1..Len(seq) : seq[k] = x})

\* C12: in tag-apply, the request issued for a record not already tagged
\* carries tag_ids equal to the record's existing tag ids in their existing
\* order followed by the new tag id, and the new tag id occurs in it
\* exactly once.
C12_TagRequestAppendsOnce ==
  worker = "ApplyTagWorker" =>
    \A q \in 1..Len(requests) :
      /\ requests[q].field = "tag_ids"
      /\ requests[q].value = scenes[requests[q].rec].tags \o <<tag_id>>
      /\ Occurrences(tag_id, requests[q].value) = 1

C12_Witness ==
  /\ worker = "ApplyTagWorker" /\ Len(requests) = 2
  /\ requests[1].value = <<"t1">> /\ requests[2].value = <<"t3", "t2", "t1">>

\* C13: in performer-assign, the request issued for a record that lacks at
\* least one requested performer carries performer_ids holding every id of
\* the existing ids united with the requested ids exactly once and no other
\* id, also when the requested list or the existing list has duplicates.
C13_PerformerRequestIsUnion ==
  worker = "AssignPerformersWorker" =>
    \A q \in 1..Len(requests) :
      LET existing == scenes[requests[q].rec].performers
          union == Range(existing) \cup Range(performer_ids)
      IN /\ requests[q].field = "performer_ids"
         /\ Range(requests[q].value) = union
         /\ \A p \in union : Occurrences(p, requests[q].value) = 1

C13_Witness ==
  /\ worker = "AssignPerformersWorker" /\ performer_ids = <<"p1", "p1">>
  /\ Len(requests) = 1 /\ scenes[requests[1].rec].performers = <<"p2", "p2">>
  /\ Len(requests[1].value) = 2

\* C14: rename has no idempotence shortcut: outside dry-run exactly one
\* request is issued for every input record, also for a record whose title
\* already is the new title, and the summary has no already-satisfied
\* count.
C14_RenameAlwaysRequests ==
  (worker = "RenameSceneWorker" /\ ~dry_run) =>
    /\ Len(requests) = idx
    /\ \A k \in 1..idx :
         /\ requests[k].rec = k
         /\ requests[k].field = "title" /\ requests[k].value = new_title
         /\ outcomes[k] # "already"
    /\ already = 0
    /\ \A r \in 1..Len(results) :
         DOMAIN results[r] = {"updated", "skipped_deleted", "failed"}

C14_Witness ==
  /\ worker = "RenameSceneWorker" /\ ~dry_run /\ pc = "done" /\ Len(results) = 1
  /\ Len(scenes) = 2 /\ scenes[2].title = new_title /\ requests[2].rec = 2

----------------------------------------------------------------------------
(* Properties of the table                                                  *)

\* Each record shown, with its selection bit
Marked == {<<_scenes[i], _checked[i]>> : i \in 1..Len(_scenes)}

\* C15: in every state reached by any sequence of table operations (replace
\* the records, toggle a row, select all, select none, import by id set,
\* sort, change the visible columns) the selection vector is exactly as long
\* as the record list.
C15_VectorParallelToRecords == Len(_checked) = Len(_scenes)

C15_Witness ==
  /\ Len(_scenes) = 2 /\ _checked = <<TRUE, FALSE>>
  /\ _sort_column = 2 /\ _visible_columns = <<0, 11, 2>> /\ op.name = "on_import_csv"

\* C16: whenever setScenes has replaced the record list, whatever the
\* records and the selection were before, the selection vector right after
\* it has the length of the new list and every bit is false.
C16_ReplaceResetsSelection ==
  at = "replaced" =>
    /\ Len(_checked) = Len(_scenes)
    /\ \A i \in 1..Len(_checked) : ~_checked[i]

C16_Witness ==
  /\ at = "replaced" /\ Len(_scenes) = 2 /\ _checked = <<FALSE, FALSE>>
  /\ _sort_column = 1 /\ _sort_order = "DescendingOrder"

\* C17: the selection bit follows the record through every sort: a sort by
\* any sortable column, ascending or descending, leaves the list holding
\* the same records, each with the bit it had before the sort; so a sort
\* followed by the sort in reverse order leaves every record's bit as it
\* was.
C17_SortCarriesBits ==
  [][op'.name = "sort" =>
       /\ Len(_scenes') = Len(_scenes)
       /\ Len(_checked') = Len(_checked)
       /\ Marked' = Marked]_vars

C17_Witness ==
  /\ op.name = "sort" /\ ~op.selector
  /\ _sort_column = 2 /\ _sort_order = "DescendingOrder"
  /\ Len(_scenes) = 2 /\ _scenes[1].id = "10" /\ _scenes[2].id = "2"
  /\ _checked = <<FALSE, TRUE>>

\* C18: a sort request on the checkbox column changes nothing: the record
\* order, the selection vector and the stored sort column and sort order
\* stay as they were.
C18_SelectorColumnNotSortable ==
  [][(op'.name = "sort" /\ op'.selector) =>
       UNCHANGED <<_scenes, _checked, _sort_column, _sort_order>>]_vars

C18_Witness ==
  /\ op.name = "sort" /\ op.selector
  /\ _sort_column = 1 /\ _sort_order = "DescendingOrder"
  /\ Len(_scenes) = 2 /\ _checked = <<TRUE, FALSE>>

\* C19: after select_by_ids(S) the selection bit of every row is true
\* exactly when the id of the record in that row is in S, whatever the
\* bits were before, and the record order is as it was.
C19_ImportRederivesSelection ==
  [][(op'.name = "on_import_csv" /\ op'.ids # {}) =>
       /\ _scenes' = _scenes
       /\ Len(_checked') = Len(_scenes')
       /\ \A i \in 1..Len(_scenes') : _checked'[i] <=> (_scenes'[i].id \in op'.ids)]_vars

C19_Witness ==
  /\ op.name = "on_import_csv" /\ op.ids = {"2", "10"}
  /\ Len(_scenes) = 2 /\ _scenes[1].id = "9" /\ _scenes[2].id = "2"
  /\ _checked = <<FALSE, TRUE>>

----------------------------------------------------------------------------
(* Properties of the file-size filter                                       *)

\* The comparison each entry of the operator combo names
Satisfies(fs, operator_index, value1, value2) ==
  CASE operator_index = 0 -> fs = value1
    [] operator_index = 1 -> fs # value1
    [] operator_index = 2 -> fs > value1
    [] operator_index = 3 -> fs >= value1
    [] operator_index = 4 -> fs < value1
    [] operator_index = 5 -> fs <= value1
    [] operator_index = 6 -> value1 <= fs /\ fs <= value2

\* The fetched records of known size that satisfy the chosen operator
ExactlyFiltered(found) ==
  LET value1 == parse_filesize_input(filesize_value1_edit, filesize_unit1_combo)
      value2 == parse_filesize_input(filesize_value2_edit, filesize_unit2_combo)
  IN SelectSeq(found, LAMBDA s :
       /\ s._filesize # NoneNum
       /\ Satisfies(s._filesize, filesize_operator_combo, value1, value2))

\* C20: with the file-size filter active the client-side predicate is exact
\* for each of the seven operators: the list put into the table is exactly
\* the fetched records whose size satisfies the chosen operator against the
\* given values, so >= and <= keep a record whose size equals the threshold.
C20_FileSizeFilterIsExact ==
  (op.name = "_on_scenes_found" /\ enable_filesize_filter_checkbox) =>
    _scenes = ExactlyFiltered(op.found)

----------------------------------------------------------------------------
(* Claims about the search form                                             *)

\* A duration field holds nothing, or nothing that reads as a duration
NoDuration(t) == t.kind \in {"empty", "blank"} \/ parse_duration_input(t) = NoneNum

\* A file-size field holds nothing, or nothing that reads as a number
NoFileSize(t, unit) == t.kind \in {"empty", "blank"} \/ parse_filesize_input(t, unit) = NoneNum

\* No criterion of the form is active
EmptyQuery ==
  /\ strip(search_edit) = "" /\ selected_performers = <<>> /\ selected_studio = None
  /\ ~enable_date_filter_checkbox /\ ~enable_duration_filter_checkbox
  /\ ~enable_path_filter_checkbox /\ ~enable_resolution_filter_checkbox
  /\ ~enable_filesize_filter_checkbox

\* An active duration or path criterion lacks a value it needs
DurationOrPathError ==
  \/ /\ enable_duration_filter_checkbox
     /\ \/ NoDuration(duration_value1_edit)
        \/ duration_operator_combo = 6 /\ NoDuration(duration_value2_edit)
  \/ enable_path_filter_checkbox /\ strip(path_search_edit) = ""

\* The active file-size criterion lacks a value it needs
FileSizeError ==
  /\ enable_filesize_filter_checkbox
  /\ \/ NoFileSize(filesize_value1_edit, filesize_unit1_combo)
     \/ filesize_operator_combo = 6
          /\ NoFileSize(filesize_value2_edit, filesize_unit2_combo)

\* C21: when no criterion is active, or an active duration, path or
\* file-size criterion has a missing or unparseable value, or a "between"
\* lacks its second value, no search worker is started and no search
\* request is sent.
C21_FormErrorsSendNothing ==
  (EmptyQuery \/ DurationOrPathError \/ FileSizeError) => pool = <<>> /\ calls = <<>>

\* The duration criterion is active with "between", a first value and no
\* second value
DurationBetweenWithoutSecond ==
  /\ enable_duration_filter_checkbox /\ duration_operator_combo = 6
  /\ ~NoDuration(duration_value1_edit)
  /\ duration_value2_edit.kind \in {"empty", "blank"}

\* C22: with the duration criterion on "between", a first value and no
\* second value, a search ends in the "Missing value" warning; no worker is
\* started and no request is sent.
C22_BetweenNeedsSecondValue ==
  DurationBetweenWithoutSecond =>
    /\ pool = <<>> /\ calls = <<>>
    /\ op.name \in {"", "Missing value"}

C22_Witness == DurationBetweenWithoutSecond /\ op.name = "Missing value"

\* The modifier the server is to get for the operator at an index of the
\* duration combo: = != > >= < <= between
SentModifier(operator_index) ==
  CASE operator_index = 0 -> "EQUALS"
    [] operator_index = 1 -> "NOT_EQUALS"
    [] operator_index \in {2, 3} -> "GREATER_THAN"
    [] operator_index \in {4, 5} -> "LESS_THAN"
    [] operator_index = 6 -> "BETWEEN"

\* C23: every search request sent with the duration criterion active
\* carries the seconds typed, unchanged, with GREATER_THAN for > and >=,
\* LESS_THAN for < and <=, and the operator itself for =, != and between
\* (which also carries the second value).
C23_DurationModifierSent ==
  \A c \in 1..Len(calls) :
    enable_duration_filter_checkbox =>
      LET d == calls[c].variables.scene_filter.duration
      IN /\ d.has
         /\ d.value = parse_duration_input(duration_value1_edit)
         /\ d.modifier = SentModifier(duration_operator_combo)
         /\ d.value2 = (IF duration_operator_combo = 6
                          THEN parse_duration_input(duration_value2_edit)
                          ELSE NoneNum)

C23_Witness ==
  /\ duration_operator_combo = 3 /\ enable_duration_filter_checkbox
  /\ duration_value1_edit = DurationText("number", 6000, <<>>)
  /\ calls # <<>>
  /\ calls[1].variables.scene_filter.duration = Criterion(600, NoneNum, "GREATER_THAN")

----------------------------------------------------------------------------
(* Claims about the normalizer                                              *)

\* The JSON numbers the files of a scene carry in a field
FieldValues(files, field) ==
  {files[k][field].n : k \in {j \in 1..Len(files) : files[j][field].type = "number"}}

\* The largest of a set of numbers, NoneNum for the empty set
Largest(S) == IF S = {} THEN NoneNum ELSE CHOOSE m \in S : \A n \in S : n <= m

\* Every numeric field of every file is a JSON number
PlainFiles(files) ==
  \A k \in 1..Len(files) :
    \A field \in {"size", "duration", "width", "height"} : files[k][field].type = "number"

\* C24: every scene of a query result whose files carry numbers gets, as
\* effective size, duration, width and height, the maximum of that field
\* over its files, each field on its own, and as effective path the path
\* of its first file.
C24_EffectiveFieldsAreMaxima ==
  \A c \in 1..Len(calls) : \A i \in 1..Len(calls[c].raw) :
    LET files == calls[c].raw[i].files
        s == calls[c].scenes[i]
    IN PlainFiles(files) /\ files # <<>> =>
         /\ s._filesize = Largest(FieldValues(files, "size"))
         /\ s._duration = Largest(FieldValues(files, "duration"))
         /\ s._width = Largest(FieldValues(files, "width"))
         /\ s._height = Largest(FieldValues(files, "height"))
         /\ s._path = files[1].path

\* Two files with sizes 100 and 250, durations 10 and 40, heights 720 and
\* 1080 have come out as size 250, duration 40, height 1080 and are shown
C24_Witness ==
  /\ Len(_scenes) = 1 /\ Len(calls) = 1 /\ Len(calls[1].raw) = 1
  /\ calls[1].raw[1].files =
       <<File(Number(100), Number(10), <<47, 97>>, Number(1280), Number(720)),
         File(Number(250), Number(40), <<47, 98>>, Number(1920), Number(1080))>>
  /\ _scenes[1]._filesize = 250 /\ _scenes[1]._duration = 40
  /\ _scenes[1]._height = 1080 /\ _scenes[1]._path = <<47, 97>>

\* The label of a height: "4K" from 2160, "1440p" from 1440, "1080p" from
\* 1080, "720p" from 720, "480p" from 480, below that the height with "p"
StepLabel(h) ==
  IF h >= 2160 THEN [n |-> 4, suffix |-> "K"]
  ELSE IF h >= 1440 THEN [n |-> 1440, suffix |-> "p"]
  ELSE IF h >= 1080 THEN [n |-> 1080, suffix |-> "p"]
  ELSE IF h >= 720 THEN [n |-> 720, suffix |-> "p"]
  ELSE IF h >= 480 THEN [n |-> 480, suffix |-> "p"]
  ELSE [n |-> h, suffix |-> "p"]

\* C25: every scene of a query result with a height has the label of that
\* height, and only a scene without a height has no label.
C25_LabelIsStepFunctionOfHeight ==
  \A c \in 1..Len(calls) : \A i \in 1..Len(calls[c].scenes) :
    LET s == calls[c].scenes[i]
    IN IF s._height # NoneNum
         THEN s._resolution = StepLabel(s._height)
         ELSE s._resolution.suffix = ""

----------------------------------------------------------------------------
(* Claims about the transport, shared state and repeated runs               *)

\* C26: when the endpoint has answered a worker's request with a body that
\* parses, the call returns the parsed response to the worker, whatever
\* the status code: it raises for no answer with a parseable body.
C26_ParseableBodyIsReturned ==
  (reply # NoReply /\ reply.net = "ok" /\ reply.parseable) => ~call(reply).raised

\* C27: no step of a bulk run changes the table's record list, its
\* selection vector or a field of a record; the records the worker was
\* given stay as fetched, also after a mutation that succeeded.
C27_WorkersLeaveTableAlone ==
  [][/\ _scenes' = _scenes
     /\ _checked' = _checked
     /\ scenes' = scenes]_vars

\* A tag-apply run has ended with its summary; the tags of its first record
\* were sent and stored by the server, the record in the table is as fetched
C27_Witness ==
  /\ worker = "ApplyTagWorker" /\ ~dry_run /\ pc = "done" /\ Len(results) = 1
  /\ outcomes[1] = "updated"
  /\ server[1] = <<"t1">>
  /\ _scenes[1].tags = <<>> /\ _scenes[1] = scenes[1]
  /\ _checked[1]

\* The response the call returned for the last record carries an error
\* message with FOREIGN KEY in it (in any letter case) and no sceneUpdate
\* with the scene's id
ReturnedForeignKey ==
  /\ Attempted /\ ~call(reply).raised
  /\ ~SuccessReply(reply, scenes[idx].id)
  /\ reply.body.has_errors
  /\ \E k \in 1..Len(reply.body.errors) :
       Contains(Upper(reply.body.errors[k]), ForeignKey)

\* C28: in tag-apply, rename and performer-assign, a returned response
\* whose errors contain FOREIGN KEY gives the record the outcome
\* skipped-missing-reference whatever its data member is (absent, null, or
\* with a null sceneUpdate), and a returned response with other error text
\* gives failed.
C28_ClassifiedByErrorTextOnly ==
  (worker \in {"ApplyTagWorker", "RenameSceneWorker", "AssignPerformersWorker"}
     /\ Attempted /\ ~call(reply).raised /\ reply.body.has_errors
     /\ ~SuccessReply(reply, scenes[idx].id))
    => outcomes[idx] = (IF ReturnedForeignKey THEN "skipped_deleted" ELSE "failed")

TwoSearchesCompleted ==
  /\ pool = <<>> /\ queue = <<>> /\ at = "idle"
  /\ Len(calls) = 2
  /\ \A c \in 1..2 : FoundReply(calls[c].reply)

\* C30: once two searches that both succeeded have completed, the table
\* holds the result of the search that was started later, whichever
\* worker delivered its result first.
C30_LaterSearchIsShown ==
  TwoSearchesCompleted =>
    \A c \in 1..2 : calls[c].n = 2 => _scenes = calls[c].scenes

====
